---- MODULE Spec2Model ----
(***************************************************************************)
(* The in-memory virtual file system of the Power Pages web extension      *)
(* (PortalsFS, src/web/client/dal/fileSystemProvider.ts) as a state        *)
(* machine.  Entries are objects of a heap, as in the code, where a        *)
(* Directory holds a Map from child name to child object.  An async method *)
(* runs up to an await in one step.  Spec has the calls made one after the *)
(* other: the awaits of lookups, which have settled when they are awaited, *)
(* are passed in the step of the call, and a call waits only at its save.  *)
(* SpecOverlapping cuts a call at every await and lets calls overlap.      *)
(* SpecRead has the reads, which may load the tree from the remote store,  *)
(* and SpecFair is Spec with the fairness of the event loop.               *)
(* The save provider, the fetch provider and the extension context are     *)
(* what the specification of the extension says of them.                   *)
(***************************************************************************)
EXTENDS Integers, Sequences, FiniteSets, TLC

\* ------------------------------------------------------------------ bounds
MaxLen == 2
MaxOps == 3

Names == {"a"}
Segs == Names \cup {""}
Contents == {<<1>>, <<2, 3>>}
EntityIds == {"e1"}
Procs == {1, 2}

\* A URI path "/s1/s2/.../sk" is the sequence <<s1, ..., sk>> of what stands
\* between its slashes; "/" is <<"">>, "/a/" is <<"a", "">>.  The URIs of this
\* file system have no authority, so their path never starts with "//".
Uris ==
    {u \in UNION {[1..k -> Segs] : k \in 1..MaxLen} : Len(u) = 1 \/ u[1] # ""}

VARIABLES
    objects,              \* the heap of File and Directory objects, by identity
    fileDataMap,          \* WebExtensionContext.fileDataMap: fsPath -> FileData
    dataverseAccessToken, \* WebExtensionContext.dataverseAccessToken
    tokensIssued,         \* tokens the authentication provider has handed out
    bufferedEvents,       \* PortalsFS._bufferedEvents
    fireSoonHandle,       \* PortalsFS._fireSoonHandle: the timer set last, if any
    timers,               \* the timers that are set and have neither fired nor
                          \* been cleared
    fired,                \* the batch the emitter fires in the step just taken
    patches,              \* the PATCH requests sent so far
    now,                  \* the last value Date.now() returned
    calls,                \* each provider call in progress, and where it stands
    lastCall,             \* the call that has just settled, until its caller goes on
    lastCreateDirectory,  \* the call that returned last, if it was a createDirectory
                          \* that succeeded: its URI and the Directory it made
    ops,                  \* provider calls started so far
    isContextSet,         \* WebExtensionContext.isContextSet
    fetch                 \* the fetch under way or made last: where it stands
                          \* and what it has reported for each entity type

vars ==
    <<objects, fileDataMap, dataverseAccessToken, tokensIssued, bufferedEvents,
      fireSoonHandle, timers, fired, patches, now, calls, lastCall,
      lastCreateDirectory, ops, isContextSet, fetch>>

\* ------------------------------------------------------------------ entries
RootId == 0
NoEntry == -1
NoMap == [n \in {} |-> NoEntry]

\* new File(name): size 0, no data, ctime and mtime the time of construction.
File(name, t) ==
    [type |-> "File", name |-> name, ctime |-> t, mtime |-> t, size |-> 0,
     data |-> <<>>, entries |-> NoMap]

\* new Directory(name): size 0, no children.
Directory(name, t) ==
    [type |-> "Directory", name |-> name, ctime |-> t, mtime |-> t, size |-> 0,
     data |-> <<>>, entries |-> NoMap]

\* Map.set(key, value)
MapSet(m, k, v) == [n \in DOMAIN m \cup {k} |-> IF n = k THEN v ELSE m[n]]

\* The id the next constructed object gets.
NextId(objs) == Cardinality(DOMAIN objs)

\* Date.now(), t being the last value read: the reads of one synchronous run
\* of code return the same millisecond, a later one than any run before.
DateNow(t) == t + 1

\* ------------------------------------------------------------------ paths
RECURSIVE StripTrailing(_)
StripTrailing(u) ==
    IF u # <<>> /\ u[Len(u)] = "" THEN StripTrailing(SubSeq(u, 1, Len(u) - 1))
    ELSE u

\* path.posix.basename(uri.path): the last component, trailing slashes dropped.
basename(u) ==
    LET s == StripTrailing(u) IN IF s = <<>> THEN "" ELSE s[Len(s)]

\* uri.with({ path: path.posix.dirname(uri.path) }): the path up to the slash
\* before the last component; "/" when there is at most one component.
dirname(u) ==
    LET s == StripTrailing(u)
    IN  IF Len(s) <= 1 THEN <<"">> ELSE SubSeq(s, 1, Len(s) - 1)

\* ------------------------------------------------------------------ lookup
Found(id) == [err |-> "none", id |-> id]
Thrown(e) == [err |-> e, id |-> NoEntry]

\* The walk that takes an empty part for a name.
RECURSIVE WalkNoSkip(_, _, _)
WalkNoSkip(objs, id, parts) ==
    IF parts = <<>> THEN id
    ELSE IF objs[id].type = "Directory" /\ Head(parts) \in DOMAIN objs[id].entries
         THEN WalkNoSkip(objs, objs[id].entries[Head(parts)], Tail(parts))
         ELSE NoEntry

\* The walk of _lookup: empty parts are skipped; a part below anything but a
\* Directory, or a name the Directory does not hold, is a miss.
RECURSIVE Walk(_, _, _)
Walk(objs, id, parts) ==
    IF parts = <<>> THEN id
    ELSE IF Head(parts) = "" THEN Walk(objs, id, Tail(parts))
    ELSE IF objs[id].type = "Directory" /\ Head(parts) \in DOMAIN objs[id].entries
         THEN Walk(objs, objs[id].entries[Head(parts)], Tail(parts))
         ELSE NoEntry

_lookup(objs, uri, silent) ==
    LET id == Walk(objs, RootId, uri)
    IN  IF id # NoEntry THEN Found(id)
        ELSE IF silent THEN Found(NoEntry) ELSE Thrown("FileNotFound")

\* A lookup that falls back on the root when the path has no entry.
_lookupAsDirectoryOrRoot(objs, uri, silent) ==
    LET r == _lookup(objs, uri, silent)
    IN  IF r.err # "none" THEN Found(RootId)
        ELSE IF r.id # NoEntry /\ objs[r.id].type = "Directory" THEN r
        ELSE Thrown("FileNotADirectory")

_lookupAsDirectory(objs, uri, silent) ==
    LET r == _lookup(objs, uri, silent)
    IN  IF r.err # "none" THEN r
        ELSE IF r.id # NoEntry /\ objs[r.id].type = "Directory" THEN r
        ELSE Thrown("FileNotADirectory")

_lookupAsFile(objs, uri, silent) ==
    LET r == _lookup(objs, uri, silent)
    IN  IF r.err # "none" THEN r
        ELSE IF r.id # NoEntry /\ objs[r.id].type = "File" THEN r
        ELSE Thrown("FileIsADirectory")

_lookupParentDirectory(objs, uri) == _lookupAsDirectory(objs, dirname(uri), FALSE)

\* -------------------------------------------------------------- scheduling
\* A call has settled and its caller has not gone on yet: it does first.
Settled == lastCall.op # "none"

\* The awaits of a lookup, and of whatever else has settled already, take
\* microtasks only: no timer and no editor event runs before the call goes on.
InMicrotask(c) == c.pc \in {"cdLookup", "cdParent", "wfParent", "register"}

\* Timers and editor events are tasks of the event loop: they run when no
\* microtask is left.
TaskMayRun == ~Settled /\ \A p \in Procs : ~InMicrotask(calls[p])

\* The editor awaits each call before it makes the next one.
OneAtATime == \A q \in Procs : calls[q].pc = "idle"

\* A call can be made: calls are counted up to MaxOps.
CallMayBegin == ~Settled /\ ops < MaxOps

\* ------------------------------------------------------------------ events
Created(u) == [type |-> "Created", uri |-> u]
Changed(u) == [type |-> "Changed", uri |-> u]

\* No timer was ever set: _fireSoonHandle is undefined.
NoHandle == 0

\* The events put before the ones that wait.
PushFront(buffer, events) == events \o buffer

\* this._bufferedEvents.push(...events)
Push(buffer, events) == buffer \o events

\* The timer left as it is.
ClearTimeoutNot(ts, handle) == ts

\* if (this._fireSoonHandle) { clearTimeout(this._fireSoonHandle) }: a timer
\* that has fired or was never set is not among those set, and clearing it does
\* nothing.
ClearTimeout(ts, handle) == ts \ {handle}

\* The events are pushed and the timer set last is cleared; none is set.
_fireSoonOnlyClears(events) ==
    /\ bufferedEvents' = Push(bufferedEvents, events)
    /\ timers' = ClearTimeout(timers, fireSoonHandle)
    /\ fireSoonHandle' = now'

\* _fireSoon(...events): push the events, clear the timer set last and set one
\* of 5 ms.  A Timeout is named by the time at which it was set: every run of
\* code that sets one reads a time of its own.
_fireSoon(events) ==
    /\ bufferedEvents' = Push(bufferedEvents, events)
    /\ timers' = ClearTimeout(timers, fireSoonHandle) \cup {now'}
    /\ fireSoonHandle' = now'

\* this._emitter.fire(this._bufferedEvents): what the listeners are handed.
EmitterFire(buffer) == buffer

\* The callback of timer h: fire the buffer as one batch, then empty it.  The
\* handle keeps the timer that has fired.
FireSoonTimeout(h) ==
    /\ TaskMayRun
    /\ h \in timers
    /\ timers' = timers \ {h}
    /\ fired' = EmitterFire(bufferedEvents)
    /\ bufferedEvents' = <<>>
    /\ UNCHANGED <<objects, fileDataMap, dataverseAccessToken, tokensIssued,
                   fireSoonHandle, patches, now, calls, lastCall,
                   lastCreateDirectory, ops, isContextSet,
                   fetch>>

\* ------------------------------------------------------------------ calls
\* What a load has read of the context and the schema: the website name and,
\* of the entity details, the export type and the folder name.  None is read
\* by a call that has not come that far.
NoLoad == [portalFolderName |-> "none", exportType |-> "none", subUri |-> "none"]

Idle ==
    [pc |-> "idle", op |-> "none", uri |-> <<"">>, content |-> <<>>,
     create |-> FALSE, overwrite |-> FALSE, register |-> "none",
     look |-> Found(NoEntry), entry |-> NoEntry, saves |-> 0, save |-> "none",
     loads |-> 0, lookups |-> 0, data |-> <<>>, list |-> {},
     cancelled |-> FALSE, issued |-> 0, load |-> NoLoad]

\* The record of a call as it is made: issued is its place among the calls
\* made so far.
NewCall == [Idle EXCEPT !.issued = ops + 1]

NoCall ==
    [op |-> "none", uri |-> <<"">>, content |-> <<>>, create |-> FALSE,
     overwrite |-> FALSE, result |-> "none", saves |-> 0, save |-> "none",
     entry |-> NoEntry, loads |-> 0, lookups |-> 0, data |-> <<>>, list |-> {},
     cancelled |-> FALSE, load |-> NoLoad]

\* What a completed call leaves behind.
Completed(c, result) ==
    [op |-> c.op, uri |-> c.uri, content |-> c.content, create |-> c.create,
     overwrite |-> c.overwrite, result |-> result, saves |-> c.saves,
     save |-> c.save, entry |-> c.entry, loads |-> c.loads,
     lookups |-> c.lookups, data |-> c.data, list |-> c.list,
     cancelled |-> c.cancelled, load |-> c.load]

\* The slot a new call takes: the first one that is free.
FreeSlot(p) == calls[p].pc = "idle" /\ \A q \in Procs : q < p => calls[q].pc # "idle"

\* A call is made.
Begins ==
    /\ CallMayBegin
    /\ ops' = ops + 1
    /\ UNCHANGED lastCreateDirectory

\* No createDirectory returned last.  `entry` is NoEntry too when the call
\* found an entry and made none.
NoCreateDirectory == [uri |-> <<>>, entry |-> NoEntry]

\* The caller of the call that settled goes on.
Return ==
    /\ Settled
    /\ lastCall' = NoCall
    /\ lastCreateDirectory' =
            IF lastCall.op = "createDirectory" /\ lastCall.result = "ok"
            THEN [uri |-> lastCall.uri, entry |-> lastCall.entry]
            ELSE NoCreateDirectory
    /\ fired' = <<>>
    /\ UNCHANGED <<objects, fileDataMap, dataverseAccessToken, tokensIssued,
                   bufferedEvents, fireSoonHandle, timers, patches, now, calls,
                   ops, isContextSet,
                   fetch>>

\* The call is over: its promise settles with `result`.  The fetch provider
\* goes on to register the file it has written.
Finish(p, c, result) ==
    /\ lastCall' = Completed(c, result)
    /\ calls' = [calls EXCEPT ![p] =
                    IF result = "ok" /\ c.register # "none"
                    THEN [c EXCEPT !.pc = "register"] ELSE Idle]

\* What no method of the provider touches but through a save.
NoSave ==
    /\ fired' = <<>>
    /\ UNCHANGED <<fileDataMap, dataverseAccessToken, tokensIssued, patches,
                   isContextSet,
                   fetch>>

NoWrite == UNCHANGED <<objects, bufferedEvents, fireSoonHandle, timers, now>>

\* ------------------------------------------------------------ createDirectory
\* The objects after parent.entries.set(entry.name, entry), parent.mtime =
\* Date.now() and parent.size += 1, the new Directory being object `id`.
AddDirectory(objs, parent, id, name, t) ==
    [i \in DOMAIN objs \cup {id} |->
        IF i = parent
        THEN [objs[parent] EXCEPT !.entries = MapSet(objs[parent].entries, name, id),
                                  !.mtime = t,
                                  !.size = objs[parent].size + 1]
        ELSE IF i = id THEN Directory(name, t)
        ELSE objs[i]]

\* The events in the other order.
CreateDirectoryEventsCreatedFirst(u) == <<Created(u), Changed(dirname(u))>>

\* The events createDirectory buffers for a directory it has made.
CreateDirectoryEvents(u) == <<Changed(dirname(u)), Created(u)>>

\* A lookup that never finds the entry.
CreateDirectoryLookupBlind(objs, u) == Found(NoEntry)

\* The silent lookup of createDirectory.
CreateDirectoryLookup(objs, u) == _lookup(objs, u, TRUE)

\* createDirectory once no entry was found, c.look being the lookup of the
\* parent: its error is the call's error; else the Directory is made and put
\* into the parent.
CreateDirectoryMake(p, c) ==
    IF c.look.err # "none"
    THEN /\ Finish(p, c, c.look.err)
         /\ NoWrite
    ELSE LET t == DateNow(now)
         IN /\ objects' = AddDirectory(objects, c.look.id, NextId(objects),
                                       basename(c.uri), t)
            /\ now' = t
            /\ _fireSoon(CreateDirectoryEvents(c.uri))
            /\ Finish(p, [c EXCEPT !.entry = NextId(objects)], "ok")

\* createDirectory(uri) as one step: its awaits are of lookups that have
\* settled, and nothing else runs before it goes on.
createDirectory(p, u) ==
    LET c == [NewCall EXCEPT !.op = "createDirectory", !.uri = u,
                             !.look = CreateDirectoryLookup(objects, u)]
    IN  /\ OneAtATime
        /\ FreeSlot(p)
        /\ Begins
        /\ IF c.look.id # NoEntry
           THEN /\ Finish(p, c, "ok")
                /\ NoWrite
           ELSE CreateDirectoryMake(p,
                    [c EXCEPT !.look = _lookupAsDirectory(objects, dirname(u), FALSE)])
        /\ NoSave

\* createDirectory(uri) cut at its awaits: up to the first, the silent lookup
\* has run ...
CreateDirectoryCall(p, u) ==
    /\ FreeSlot(p)
    /\ Begins
    /\ calls' = [calls EXCEPT ![p] =
                    [NewCall EXCEPT !.pc = "cdLookup", !.op = "createDirectory",
                                    !.uri = u, !.look = CreateDirectoryLookup(objects, u)]]
    /\ UNCHANGED lastCall
    /\ NoWrite
    /\ NoSave

\* ... after it, an entry of any kind ends the call; with none, the parent is
\* looked up, not silently ...
CreateDirectoryLookedUp(p) ==
    LET c == calls[p]
    IN  /\ ~Settled
        /\ c.pc = "cdLookup"
        /\ IF c.look.id # NoEntry
           THEN Finish(p, c, "ok")
           ELSE /\ calls' = [calls EXCEPT ![p] =
                                [c EXCEPT !.pc = "cdParent",
                                          !.look = _lookupAsDirectory(objects, dirname(c.uri), FALSE)]]
                /\ UNCHANGED lastCall
        /\ NoWrite
        /\ NoSave
        /\ UNCHANGED <<ops, lastCreateDirectory>>

\* ... and after that lookup the Directory is made.
CreateDirectoryParentLookedUp(p) ==
    /\ ~Settled
    /\ calls[p].pc = "cdParent"
    /\ CreateDirectoryMake(p, calls[p])
    /\ NoSave
    /\ UNCHANGED <<ops, lastCreateDirectory>>

\* ------------------------------------------------------------------ writeFile
\* parent.entries.get(basename)
ChildOf(objs, parent, name) ==
    IF name \in DOMAIN objs[parent].entries THEN objs[parent].entries[name]
    ELSE NoEntry

\* The throws without the test of `create` for an absent entry.
WriteFileCheckNoNotFound(objs, entry, create, overwrite) ==
    IF entry # NoEntry /\ objs[entry].type = "Directory" THEN "FileIsADirectory"
    ELSE IF entry # NoEntry /\ create /\ ~overwrite THEN "FileExists"
    ELSE "none"

\* The throws with `overwrite` tested the wrong way round.
WriteFileCheckOverwrite(objs, entry, create, overwrite) ==
    IF entry # NoEntry /\ objs[entry].type = "Directory" THEN "FileIsADirectory"
    ELSE IF entry = NoEntry /\ ~create THEN "FileNotFound"
    ELSE IF entry # NoEntry /\ create /\ overwrite THEN "FileExists"
    ELSE "none"

\* The three throws of writeFile, in the code's order; "none" when it goes on.
WriteFileCheck(objs, entry, create, overwrite) ==
    IF entry # NoEntry /\ objs[entry].type = "Directory" THEN "FileIsADirectory"
    ELSE IF entry = NoEntry /\ ~create THEN "FileNotFound"
    ELSE IF entry # NoEntry /\ create /\ ~overwrite THEN "FileExists"
    ELSE "none"

\* The flag read under the path of the parent.
HasDirtyChangesOfParent(fdm, u) ==
    dirname(u) \in DOMAIN fdm /\ fdm[dirname(u)].hasDirtyChanges

\* The flag taken as set when the path has no FileData.
HasDirtyChangesOrNoFileData(fdm, u) == u \notin DOMAIN fdm \/ fdm[u].hasDirtyChanges

\* fileDataMap.getFileMap.get(uri.fsPath)?.hasDirtyChanges
HasDirtyChanges(fdm, u) == u \in DOMAIN fdm /\ fdm[u].hasDirtyChanges

\* entry.mtime = Date.now(); entry.size = content.byteLength; entry.data = content
SetContent(objs, entry, content, t) ==
    [objs EXCEPT ![entry] = [@ EXCEPT !.mtime = t, !.size = Len(content),
                                      !.data = content]]

\* The File made without its name.
AddFileUnnamed(objs, parent, id, name, t) ==
    [i \in DOMAIN objs \cup {id} |->
        IF i = parent
        THEN [objs[parent] EXCEPT !.entries = MapSet(objs[parent].entries, name, id)]
        ELSE IF i = id THEN File("", t)
        ELSE objs[i]]

\* The objects after entry = new File(basename); parent.entries.set(basename,
\* entry), the new File being object `id`.
AddFile(objs, parent, id, name, t) ==
    [i \in DOMAIN objs \cup {id} |->
        IF i = parent
        THEN [objs[parent] EXCEPT !.entries = MapSet(objs[parent].entries, name, id)]
        ELSE IF i = id THEN File(name, t)
        ELSE objs[i]]

\* The events writeFile buffers when it has written: Created first when the
\* File is new.
WriteFileEvents(u, isNew) ==
    (IF isNew THEN <<Created(u)>> ELSE <<>>) \o <<Changed(u)>>

\* The last lines of writeFile: the entry takes the content, the events are
\* buffered and the call is over.
WriteFileApply(p, c, objs, entry, isNew) ==
    LET t == DateNow(now)
    IN  /\ objects' = SetContent(IF isNew
                                 THEN AddFile(objs, c.look.id, entry, basename(c.uri), t)
                                 ELSE objs,
                                 entry, c.content, t)
        /\ now' = t
        /\ _fireSoon(WriteFileEvents(c.uri, isNew))
        /\ Finish(p, [c EXCEPT !.entry = entry], "ok")

\* writeFile that does not wait for the save: the content is written at once.
WriteFileBodyNoAwait(p, c) ==
    LET entry == ChildOf(objects, c.look.id, basename(c.uri))
        err == IF c.look.err # "none" THEN c.look.err
               ELSE WriteFileCheck(objects, entry, c.create, c.overwrite)
    IN  IF err # "none"
        THEN /\ Finish(p, c, err)
             /\ NoWrite
        ELSE IF entry = NoEntry
        THEN WriteFileApply(p, c, objects, NextId(objects), TRUE)
        ELSE WriteFileApply(p, c, objects, entry, FALSE)

\* writeFile that makes the File before it tests `create`: the throw for an
\* absent entry comes when the File is in the tree and its event is buffered.
WriteFileBodyMakesFirst(p, c) ==
    LET entry == ChildOf(objects, c.look.id, basename(c.uri))
        err == IF c.look.err # "none" THEN c.look.err
               ELSE WriteFileCheck(objects, entry, c.create, c.overwrite)
        t == DateNow(now)
    IN  IF err = "FileNotFound" /\ c.look.err = "none"
        THEN /\ objects' = AddFile(objects, c.look.id, NextId(objects),
                                   basename(c.uri), t)
             /\ now' = t
             /\ _fireSoon(<<Created(c.uri)>>)
             /\ Finish(p, c, err)
        ELSE IF err # "none"
        THEN /\ Finish(p, c, err)
             /\ NoWrite
        ELSE IF entry = NoEntry
        THEN WriteFileApply(p, c, objects, NextId(objects), TRUE)
        ELSE IF HasDirtyChanges(fileDataMap, c.uri)
        THEN /\ calls' = [calls EXCEPT ![p] =
                             [c EXCEPT !.pc = "reAuthenticate", !.entry = entry]]
             /\ UNCHANGED lastCall
             /\ NoWrite
        ELSE WriteFileApply(p, c, objects, entry, FALSE)

\* writeFile from `parent.entries.get(basename)` on, c.look being the lookup
\* of the parent: a throw ends the call; a new File is made and written; a
\* File with dirty changes is saved first, which begins with the
\* re-authentication; any other File is written at once.
WriteFileBody(p, c) ==
    LET entry == ChildOf(objects, c.look.id, basename(c.uri))
        err == IF c.look.err # "none" THEN c.look.err
               ELSE WriteFileCheck(objects, entry, c.create, c.overwrite)
    IN  IF err # "none"
        THEN /\ Finish(p, c, err)
             /\ NoWrite
        ELSE IF entry = NoEntry
        THEN WriteFileApply(p, c, objects, NextId(objects), TRUE)
        ELSE IF HasDirtyChanges(fileDataMap, c.uri)
        THEN /\ calls' = [calls EXCEPT ![p] =
                             [c EXCEPT !.pc = "reAuthenticate", !.entry = entry]]
             /\ UNCHANGED lastCall
             /\ NoWrite
        ELSE WriteFileApply(p, c, objects, entry, FALSE)

\* The call's record when the lookup of the parent directory has run.
NewWriteFile(u, content, create, overwrite, register) ==
    [NewCall EXCEPT !.op = "writeFile", !.uri = u, !.content = content,
                    !.create = create, !.overwrite = overwrite,
                    !.register = register,
                    !.look = _lookupParentDirectory(objects, u)]

\* writeFile(uri, content, options) up to the save, or to its end when there
\* is none, as one step: the await of the lookup is of a promise that has
\* settled.
writeFile(p, u, content, create, overwrite) ==
    /\ OneAtATime
    /\ FreeSlot(p)
    /\ Begins
    /\ WriteFileBody(p, NewWriteFile(u, content, create, overwrite, "none"))
    /\ NoSave

\* writeFile cut at the await of the lookup too.
StartWriteFile(p, u, content, create, overwrite, register) ==
    /\ FreeSlot(p)
    /\ Begins
    /\ calls' = [calls EXCEPT ![p] =
                    [NewWriteFile(u, content, create, overwrite, register)
                        EXCEPT !.pc = "wfParent"]]
    /\ UNCHANGED lastCall
    /\ NoWrite
    /\ NoSave

WriteFileCall(p, u, content, create, overwrite) ==
    StartWriteFile(p, u, content, create, overwrite, "none")

WriteFileParentLookedUp(p) ==
    /\ ~Settled
    /\ calls[p].pc = "wfParent"
    /\ WriteFileBody(p, calls[p])
    /\ NoSave
    /\ UNCHANGED <<ops, lastCreateDirectory>>

\* ------------------------------------------------------------------ save
\* The PATCH that saveData sends: the record the FileData names, the bearer
\* token it was given, and the bytes the file holds in the VFS.
PatchRequest(objs, fdm, u, token) ==
    [uri |-> u,
     token |-> token,
     entityId |-> IF u \in DOMAIN fdm THEN fdm[u].entityId ELSE "undefined",
     data |-> LET f == _lookupAsFile(objs, u, FALSE)
              IN  IF f.err = "none" THEN objs[f.id].data ELSE <<>>]

\* WebExtensionContext.reAuthenticate(): the context takes a fresh token.
reAuthenticate ==
    /\ tokensIssued' = tokensIssued + 1
    /\ dataverseAccessToken' = tokensIssued + 1

\* The token read before the re-authentication.
SaveTokenKept(tokenBefore, tokenAfter) == tokenBefore

\* The token _saveFileToDataverseFromVFS hands to saveData: the context's,
\* read after the re-authentication.
SaveToken(tokenBefore, tokenAfter) == tokenAfter

\* _saveFileToDataverseFromVFS after `await reAuthenticate()`: the request URL
\* is built from the FileData and saveData is called with the context's token.
Reauthenticated(p) ==
    LET c == calls[p]
    IN  /\ ~Settled
        /\ c.pc = "reAuthenticate"
        /\ reAuthenticate
        /\ patches' = Append(patches,
                PatchRequest(objects, fileDataMap, c.uri,
                             SaveToken(dataverseAccessToken, dataverseAccessToken')))
        /\ calls' = [calls EXCEPT ![p] =
                        [c EXCEPT !.pc = "saveData", !.saves = c.saves + 1]]
        /\ fired' = <<>>
        /\ NoWrite
        /\ UNCHANGED <<fileDataMap, lastCall, lastCreateDirectory, ops,
                       isContextSet,
                   fetch>>

\* How a save can end: the record is patched; the request fails and an error
\* is shown; the request fails and saveData throws.
SaveOutcomes == {"saved", "failed", "thrown"}

\* saveData on success clears the dirty flag; on failure it leaves it.
AfterSave(fdm, u, outcome) ==
    IF outcome = "saved" /\ u \in DOMAIN fdm
    THEN [fdm EXCEPT ![u] = [@ EXCEPT !.hasDirtyChanges = FALSE]]
    ELSE fdm

\* The progress rejects when it was cancelled, whatever its task has done.
WithProgressRejectsCancelled(c, outcome) == outcome = "thrown" \/ c.cancelled

\* vscode.window.withProgress({ cancellable: true, ... }, async () => { ... }):
\* the task takes neither the progress nor the cancellation token it is handed,
\* and the promise of withProgress is the task's: it rejects when the save
\* throws, and only then.
WithProgressRejects(c, outcome) == outcome = "thrown"

\* The user cancels the progress of a save that is under way: the token the
\* task was handed is cancelled, and nothing reads it.
CancelProgress(p) ==
    /\ TaskMayRun
    /\ calls[p].pc \in {"reAuthenticate", "saveData"}
    /\ ~calls[p].cancelled
    /\ calls' = [calls EXCEPT ![p] = [@ EXCEPT !.cancelled = TRUE]]
    /\ fired' = <<>>
    /\ NoWrite
    /\ UNCHANGED <<fileDataMap, dataverseAccessToken, tokensIssued, patches,
                   lastCall, lastCreateDirectory, ops, isContextSet,
                   fetch>>

\* writeFile after `await vscode.window.withProgress(...)`: the save is over;
\* unless it threw, the entry that was looked up before the save takes the
\* content.
Saved(p, outcome) ==
    LET c == [calls[p] EXCEPT !.save = outcome]
    IN  /\ ~Settled
        /\ c.pc = "saveData"
        /\ fileDataMap' = AfterSave(fileDataMap, c.uri, outcome)
        /\ IF WithProgressRejects(c, outcome)
           THEN /\ Finish(p, c, "SaveFailed")
                /\ NoWrite
           ELSE WriteFileApply(p, c, objects, c.entry, FALSE)
        /\ fired' = <<>>
        /\ UNCHANGED <<dataverseAccessToken, tokensIssued, patches,
                       lastCreateDirectory, ops, isContextSet,
                   fetch>>

\* ------------------------------------------------------------------ fetch
\* The paths the fetch provider builds: no empty segment.
FetchUris == {u \in Uris : \A i \in 1..Len(u) : u[i] # ""}

\* The fetch provider materializes a record: it writes the file with create
\* and overwrite set ...
FetchWriteFile(p, u, content, entityId) ==
    /\ OneAtATime
    /\ FreeSlot(p)
    /\ Begins
    /\ WriteFileBody(p, NewWriteFile(u, content, TRUE, TRUE, entityId))
    /\ NoSave

FetchWriteFileCall(p, u, content, entityId) ==
    StartWriteFile(p, u, content, TRUE, TRUE, entityId)

\* ... and registers its FileData, not dirty.
updateFileDetailsInContext(p) ==
    LET c == calls[p]
    IN  /\ ~Settled
        /\ c.pc = "register"
        /\ fileDataMap' = MapSet(fileDataMap, c.uri,
                [entityId |-> c.register, hasDirtyChanges |-> FALSE])
        /\ calls' = [calls EXCEPT ![p] = Idle]
        /\ fired' = <<>>
        /\ NoWrite
        /\ UNCHANGED <<dataverseAccessToken, tokensIssued, patches, lastCall,
                       lastCreateDirectory, ops, isContextSet,
                   fetch>>

\* A local edit of a fetched file sets its dirty flag.
EditDocument(u) ==
    /\ TaskMayRun
    /\ u \in DOMAIN fileDataMap
    /\ ~fileDataMap[u].hasDirtyChanges
    /\ fileDataMap' = [fileDataMap EXCEPT ![u] = [@ EXCEPT !.hasDirtyChanges = TRUE]]
    /\ fired' = <<>>
    /\ NoWrite
    /\ UNCHANGED <<dataverseAccessToken, tokensIssued, patches, calls, lastCall,
                   lastCreateDirectory, ops, isContextSet,
                   fetch>>

\* ------------------------------------------------------------------ context
\* The website the session is about, and the folder of its entity type.
WebsiteName == "w"
EntityFolderName == "e"

\* WebExtensionContext.rootDirectory: portals:/<website name>/
rootDirectory == <<WebsiteName, "">>

\* The session is set up: the context holds the website and its root.
setWebExtensionContext ==
    /\ ~isContextSet
    /\ isContextSet' = TRUE
    /\ fired' = <<>>
    /\ NoWrite
    /\ UNCHANGED <<fileDataMap, dataverseAccessToken, tokensIssued, patches,
                   calls, lastCall, lastCreateDirectory, ops, fetch>>

\* The URI as it is.
KeepCase(u) == u

\* uri.toString().toLowerCase(): of the names of the model, "W" has a lower
\* case that differs from it.
ToLowerCase(u) == [i \in DOMAIN u |-> IF u[i] = "W" THEN "w" ELSE u[i]]

\* uri.toString().includes(r.toString()): the scheme stands at the start of a
\* URI only, so r is found at the start or nowhere; its segments but the last
\* are followed by a slash and have to be whole, its last has to begin a
\* segment.  Names are single letters: one begins another when they are equal.
UriIncludes(u, r) ==
    /\ Len(u) >= Len(r)
    /\ \A i \in 1..(Len(r) - 1) : u[i] = r[i]
    /\ r[Len(r)] \in {"", u[Len(r)]}

\* pathHasEntityFolderName(uri.toString()): the URI holds the folder name of
\* an entity.
pathHasEntityFolderName(u) == \E i \in DOMAIN u : u[i] = EntityFolderName

\* The URIs the editor reads: those it writes, the root with and without its
\* slash and in upper case, and paths below the root, with and without the
\* entity folder.
ReadUris ==
    Uris \cup {rootDirectory, <<WebsiteName>>, <<"W", "">>,
               <<WebsiteName, EntityFolderName>>, <<WebsiteName, "a">>,
               <<WebsiteName, EntityFolderName, "a">>, <<"a", EntityFolderName>>}

\* The URIs a rename is to give: the root's and one below it.
RenameTargets == {<<"">>, <<"a">>}

\* The URIs the editor writes when it reads too: the path of the root as well.
WriteUris == Uris \cup {<<WebsiteName>>}

\* ------------------------------------------------------------ rename, delete
\* The call returns.
Implemented == "ok"

\* throw new Error("Method not implemented.")
NotImplemented == "Method not implemented."

\* rename(): throws, whatever it is called with.
rename(p, oldUri, newUri) ==
    /\ OneAtATime
    /\ FreeSlot(p)
    /\ Begins
    /\ Finish(p, [NewCall EXCEPT !.op = "rename", !.uri = oldUri], NotImplemented)
    /\ NoWrite
    /\ NoSave

\* delete(): throws, whatever it is called with.  (`delete` is not a name TLA+
\* gives to a definition the way the source does: the method is delete_.)
delete_(p, u) ==
    /\ OneAtATime
    /\ FreeSlot(p)
    /\ Begins
    /\ Finish(p, [NewCall EXCEPT !.op = "delete", !.uri = u], NotImplemented)
    /\ NoWrite
    /\ NoSave

\* ------------------------------------------------------------------ stat
\* A lookup that is silent.
StatLookupSilent(objs, u) == _lookup(objs, u, TRUE)

\* this._lookup(uri, false)
StatLookup(objs, u) == _lookup(objs, u, FALSE)

\* stat(uri): the entry of the path, or the error of the lookup.
stat(p, u) ==
    LET r == StatLookup(objects, u)
        c == [NewCall EXCEPT !.op = "stat", !.uri = u, !.look = r, !.entry = r.id,
                             !.lookups = 1]
    IN  /\ OneAtATime
        /\ FreeSlot(p)
        /\ Begins
        /\ Finish(p, c, IF r.err # "none" THEN r.err ELSE "ok")
        /\ NoWrite
        /\ NoSave

\* ------------------------------------------------------------------ load
\* What a run of the provider's own calls has done so far: the objects, the
\* events it has handed to _fireSoon, the time read last, the error thrown.
Within(objs, t) == [objects |-> objs, events |-> <<>>, now |-> t, err |-> "none"]

\* createDirectory(uri) called by the provider, after what `s` has done: a
\* throw ends the run.
CreateDirectoryWithin(s, u) ==
    IF s.err # "none" THEN s
    ELSE IF CreateDirectoryLookup(s.objects, u).id # NoEntry THEN s
    ELSE LET parent == _lookupAsDirectory(s.objects, dirname(u), FALSE)
             t == DateNow(s.now)
         IN  IF parent.err # "none" THEN [s EXCEPT !.err = parent.err]
             ELSE [s EXCEPT !.objects = AddDirectory(s.objects, parent.id,
                                            NextId(s.objects), basename(u), t),
                            !.events = s.events \o CreateDirectoryEvents(u),
                            !.now = t]

\* writeFile(uri, content, { create: true, overwrite: true }) called by the
\* fetch provider, after what `s` has done.  No file has dirty changes when a
\* load writes it.
WriteFileWithin(s, u, content) ==
    LET look == _lookupParentDirectory(s.objects, u)
        entry == ChildOf(s.objects, look.id, basename(u))
        err == IF look.err # "none" THEN look.err
               ELSE WriteFileCheck(s.objects, entry, TRUE, TRUE)
        t == DateNow(s.now)
    IN  IF s.err # "none" THEN s
        ELSE IF err # "none" THEN [s EXCEPT !.err = err]
        ELSE [s EXCEPT !.objects =
                          IF entry = NoEntry
                          THEN SetContent(AddFile(s.objects, look.id, NextId(s.objects),
                                                  basename(u), t),
                                          NextId(s.objects), content, t)
                          ELSE SetContent(s.objects, entry, content, t),
                       !.events = s.events \o WriteFileEvents(u, entry = NoEntry),
                       !.now = t]

\* The tree, the clock and the events take what the run has done; _fireSoon is
\* called when there are events.
Apply(s) ==
    /\ objects' = s.objects
    /\ now' = s.now
    /\ IF s.events # <<>> THEN _fireSoon(s.events)
       ELSE UNCHANGED <<bufferedEvents, fireSoonHandle, timers>>

\* createFileSystem(websiteName): the directory of the website, then
\* createEntityFolder: the folder of the entity type below it.
createFileSystem(objs, t) ==
    CreateDirectoryWithin(CreateDirectoryWithin(Within(objs, t), rootDirectory),
                          <<WebsiteName, EntityFolderName, "">>)

\* The records a fetch can bring: none, when the website has none or the
\* request fails, or one, the file "a" of the entity folder.
Records ==
    {<<>>} \cup {<<[uri |-> <<WebsiteName, EntityFolderName, "a">>,
                    content |-> content, entityId |-> e]>> :
                 content \in Contents, e \in EntityIds}

\* The fetch provider materializes the records: each is written and, when it
\* was written, registered with hasDirtyChanges false.  A record that cannot be
\* written is reported and left out; the fetch goes on.
RECURSIVE Materialize(_, _)
Materialize(s, records) ==
    IF records = <<>> THEN s
    ELSE LET w == WriteFileWithin(s, Head(records).uri, Head(records).content)
         IN  Materialize(IF w.err # "none" THEN s ELSE w, Tail(records))

RECURSIVE Register(_, _, _)
Register(fdm, s, records) ==
    IF records = <<>> THEN fdm
    ELSE LET r == Head(records)
             w == WriteFileWithin(s, r.uri, r.content)
         IN  IF w.err # "none" THEN Register(fdm, s, Tail(records))
             ELSE Register(MapSet(fdm, r.uri,
                               [entityId |-> r.entityId, hasDirtyChanges |-> FALSE]),
                           w, Tail(records))

\* WebExtensionContext.authenticateAndUpdateDataverseProperties(): the context
\* takes a token.
authenticateAndUpdateDataverseProperties ==
    /\ tokensIssued' = tokensIssued + 1
    /\ dataverseAccessToken' = tokensIssued + 1

\* _loadFromDataverseToVFS() begins: the call waits for
\* authenticateAndUpdateDataverseProperties().
StartLoad(p, c) ==
    /\ calls' = [calls EXCEPT ![p] =
                    [c EXCEPT !.pc = "authenticate", !.loads = c.loads + 1]]
    /\ UNCHANGED lastCall

\* _loadFromDataverseToVFS() after the authentication: the context has a
\* token, createFileSystem runs, and the fetch is begun unless a
\* createDirectory has thrown, which ends the load and the call with it.
Authenticated(p) ==
    LET c == calls[p]
        s == createFileSystem(objects, now)
    IN  /\ ~Settled
        /\ c.pc = "authenticate"
        /\ authenticateAndUpdateDataverseProperties
        /\ Apply(s)
        /\ IF s.err # "none" THEN Finish(p, c, s.err)
           ELSE /\ calls' = [calls EXCEPT ![p] = [c EXCEPT !.pc = "fetch"]]
                /\ UNCHANGED lastCall
        /\ fired' = <<>>
        /\ UNCHANGED <<fileDataMap, patches, lastCreateDirectory, ops, isContextSet,
                   fetch>>

\* The website names urlParametersMap can hold: that of the session, or none.
PortalFolderNames == {WebsiteName, ""}

\* folderExportType.SubFolders and SingleFolder, another export type, and the
\* export type of an entity the schema does not know.
ExportTypes == {"SubFolders", "SingleFolder", "SingleFile", "undefined"}

\* schemaEntityKey.FILE_FOLDER_NAME of the entity details: the folder name,
\* an empty one, or none.
SubUris == {EntityFolderName, "", "undefined"}

\* What a load can read: a website name and the details of the default
\* entity type.
Loads ==
    {[portalFolderName |-> n, exportType |-> x, subUri |-> f] :
        n \in PortalFolderNames, x \in ExportTypes, f \in SubUris}

\* ERRORS.PORTAL_FOLDER_NAME_EMPTY and ERRORS.SUBURI_EMPTY
PORTAL_FOLDER_NAME_EMPTY == "PORTAL_FOLDER_NAME_EMPTY"
SUBURI_EMPTY == "SUBURI_EMPTY"

\* createEntityFolder(portalFolderName), after what `s` has done: an empty
\* folder name throws; the folder is made when the export type is SubFolders
\* or SingleFolder.
createEntityFolder(s, l) ==
    IF s.err # "none" THEN s
    ELSE IF l.subUri = "" THEN [s EXCEPT !.err = SUBURI_EMPTY]
    ELSE IF l.exportType \in {"SubFolders", "SingleFolder"}
    THEN CreateDirectoryWithin(s, <<l.portalFolderName, l.subUri, "">>)
    ELSE s

\* createFileSystem that makes the folder of the entity before the directory
\* of the website.
createFileSystemFolderFirst(objs, t, l) ==
    IF l.portalFolderName = ""
    THEN [Within(objs, t) EXCEPT !.err = PORTAL_FOLDER_NAME_EMPTY]
    ELSE CreateDirectoryWithin(createEntityFolder(Within(objs, t), l),
                               <<l.portalFolderName, "">>)

\* createFileSystem(portalFolderName) with the name and the entity details a
\* load has read: an empty name throws before anything is made; else the
\* directory of the website, then createEntityFolder.
createFileSystemOf(objs, t, l) ==
    IF l.portalFolderName = ""
    THEN [Within(objs, t) EXCEPT !.err = PORTAL_FOLDER_NAME_EMPTY]
    ELSE createEntityFolder(
            CreateDirectoryWithin(Within(objs, t), <<l.portalFolderName, "">>), l)

\* _loadFromDataverseToVFS() after the authentication, `l` being what the
\* load reads of the context and the schema: the context has a token,
\* createFileSystem runs, and the fetch is begun unless it has thrown.
AuthenticatedOf(p, l) ==
    LET c == [calls[p] EXCEPT !.load = l]
        s == createFileSystemOf(objects, now, l)
    IN  /\ ~Settled
        /\ c.pc = "authenticate"
        /\ authenticateAndUpdateDataverseProperties
        /\ Apply(s)
        /\ IF s.err # "none" THEN Finish(p, c, s.err)
           ELSE /\ calls' = [calls EXCEPT ![p] = [c EXCEPT !.pc = "fetch"]]
                /\ UNCHANGED lastCall
        /\ fired' = <<>>
        /\ UNCHANGED <<fileDataMap, patches, lastCreateDirectory, ops, isContextSet,
                       fetch>>

\* readFile that does not look the path up again.
ReadFileAfterLoadNoRetry(objs, c) == c

\* readFile after its load that catches the error of the lookup too: no
\* bytes, and no error.
ReadFileAfterLoadSoft(objs, c) ==
    LET r == _lookupAsFile(objs, c.uri, FALSE)
    IN  [c EXCEPT !.look = IF r.err = "none" THEN r ELSE Found(NoEntry),
                  !.lookups = c.lookups + 1,
                  !.data = IF r.err = "none" THEN objs[r.id].data ELSE <<>>]

\* readFile after its load: the one lookup more, whose error is the call's.
ReadFileAfterLoad(objs, c) ==
    LET r == _lookupAsFile(objs, c.uri, FALSE)
    IN  [c EXCEPT !.look = r, !.lookups = c.lookups + 1,
                  !.data = IF r.err = "none" THEN objs[r.id].data ELSE <<>>]

\* The fetch is over, `records` being what it has brought: they are in the
\* tree and in the FileData map, _loadFromDataverseToVFS returns and the call
\* that began it goes on: readDirectory returns the list it had, readFile
\* looks the path up once more.
Fetched(p, records) ==
    LET c == calls[p]
        s == Materialize(Within(objects, now), records)
        d == IF c.op = "readFile" THEN ReadFileAfterLoad(s.objects, c) ELSE c
    IN  /\ ~Settled
        /\ c.pc = "fetch"
        /\ Apply(s)
        /\ fileDataMap' = Register(fileDataMap, Within(objects, now), records)
        /\ Finish(p, d, IF d.look.err # "none" /\ c.op = "readFile"
                        THEN d.look.err ELSE "ok")
        /\ fired' = <<>>
        /\ UNCHANGED <<dataverseAccessToken, tokensIssued, patches,
                       lastCreateDirectory, ops, isContextSet,
                   fetch>>

\* -------------------------------------------------------------- readDirectory
\* for (const [name, child] of entry.entries) result.push([name, child.type])
Listing(objs, id) ==
    {<<n, objs[objs[id].entries[n]].type>> : n \in DOMAIN objs[id].entries}

\* The catch of readDirectory begins a load: the lookup has thrown
\* FileNotFound, the context is set and the URI is the root's, in lower case.
ReadDirectoryLoads(err, u) ==
    /\ err = "FileNotFound"
    /\ isContextSet
    /\ ToLowerCase(u) = ToLowerCase(rootDirectory)

\* readDirectory(uri) up to its load, or to its end when there is none: the
\* list of the Directory; whatever the lookup throws is caught, and the list
\* is empty then.
readDirectory(p, u) ==
    LET r == _lookupAsDirectory(objects, u, FALSE)
        c == [NewCall EXCEPT !.op = "readDirectory", !.uri = u, !.look = r,
                             !.lookups = 1,
                             !.list = IF r.err = "none" THEN Listing(objects, r.id)
                                      ELSE {}]
    IN  /\ OneAtATime
        /\ FreeSlot(p)
        /\ Begins
        /\ IF ReadDirectoryLoads(r.err, u) THEN StartLoad(p, c)
           ELSE Finish(p, c, "ok")
        /\ NoWrite
        /\ NoSave

\* ------------------------------------------------------------------ readFile
\* A load for every file that is not found.
ReadFileLoadsAlways(err, u) == err = "FileNotFound"

\* The catch of readFile begins a load: the lookup has thrown FileNotFound,
\* the context is set, the URI includes the root's and holds the folder name
\* of an entity.
ReadFileLoads(err, u) ==
    /\ err = "FileNotFound"
    /\ isContextSet
    /\ UriIncludes(u, rootDirectory)
    /\ pathHasEntityFolderName(u)

\* readFile(uri) up to its load, or to its end when there is none: the bytes
\* of the File; with no File and no load, no bytes.
readFile(p, u) ==
    LET r == _lookupAsFile(objects, u, FALSE)
        c == [NewCall EXCEPT !.op = "readFile", !.uri = u, !.look = r,
                             !.lookups = 1,
                             !.data = IF r.err = "none" THEN objects[r.id].data
                                      ELSE <<>>]
    IN  /\ OneAtATime
        /\ FreeSlot(p)
        /\ Begins
        /\ IF ReadFileLoads(r.err, u) THEN StartLoad(p, c)
           ELSE Finish(p, c, "ok")
        /\ NoWrite
        /\ NoSave

\* readDirectory(uri) and readFile(uri) made while other calls are at an
\* await of the remote store: the lookup and its catch run before any of them
\* goes on.
ReadDirectoryCall(p, u) ==
    LET r == _lookupAsDirectory(objects, u, FALSE)
        c == [NewCall EXCEPT !.op = "readDirectory", !.uri = u, !.look = r,
                             !.lookups = 1,
                             !.list = IF r.err = "none" THEN Listing(objects, r.id)
                                      ELSE {}]
    IN  /\ FreeSlot(p)
        /\ Begins
        /\ IF ReadDirectoryLoads(r.err, u) THEN StartLoad(p, c)
           ELSE Finish(p, c, "ok")
        /\ NoWrite
        /\ NoSave

ReadFileCall(p, u) ==
    LET r == _lookupAsFile(objects, u, FALSE)
        c == [NewCall EXCEPT !.op = "readFile", !.uri = u, !.look = r,
                             !.lookups = 1,
                             !.data = IF r.err = "none" THEN objects[r.id].data
                                      ELSE <<>>]
    IN  /\ FreeSlot(p)
        /\ Begins
        /\ IF ReadFileLoads(r.err, u) THEN StartLoad(p, c)
           ELSE Finish(p, c, "ok")
        /\ NoWrite
        /\ NoSave

\* The fetch is over and none of the files it has written had dirty changes:
\* no writeFile of it has waited for a save, and no call of it is left.
FetchedClean(p, records) ==
    /\ \A q \in Procs \ {p} : calls[q].pc = "idle"
    /\ \A i \in DOMAIN records : ~HasDirtyChanges(fileDataMap, records[i].uri)
    /\ Fetched(p, records)

\* The fetch of a load under way writes a record whose file is in the tree
\* and has dirty changes: portalFs.writeFile(uri, content, { create: true,
\* overwrite: true }) is a call of its own, which goes the way of every
\* writeFile and is registered when it has written.
LoadWriteFile(q, r) ==
    /\ \E p \in Procs : calls[p].pc = "fetch"
    /\ HasDirtyChanges(fileDataMap, r.uri)
    /\ FreeSlot(q)
    /\ Begins
    /\ WriteFileBody(q, NewWriteFile(r.uri, r.content, TRUE, TRUE, r.entityId))
    /\ NoSave

\* ------------------------------------------------------------ fetch provider
MaxRecords == 2

\* The entity types the schema declares, in its order, each named by its
\* folder: the one of the entity folder, whose records hold content in two
\* attributes, and another, whose records hold it in one.
EntityTypes == <<EntityFolderName, "f">>

Range(f) == {f[i] : i \in DOMAIN f}

\* The attributes of the entity type that hold content, by their file
\* extension: the fetch writes one file for each.
AttributesOf(t) == IF t = EntityFolderName THEN <<"x", "y">> ELSE <<"x">>

\* GetFileNameWithExtension: the record's name and the attribute's extension.
GetFileNameWithExtension(name, ext) == name \o "." \o ext

\* The folder of the entity type and the path of a file in it.
EntityFolder(t) == <<WebsiteName, t, "">>
FilePath(t, name, ext) == <<WebsiteName, t, GetFileNameWithExtension(name, ext)>>

\* Base64 text stands for bytes by other bytes: those of the alphabet.
Base64Alphabet == 100
convertToBase64(bytes) == [i \in DOMAIN bytes |-> bytes[i] + Base64Alphabet]
convertFromBase64(text) == [i \in DOMAIN text |-> text[i] - Base64Alphabet]

\* isBase64Encoded(content): sniffed from the content, which is Base64 when
\* every byte of it is of the alphabet.
isBase64Encoded(v) == v # <<>> /\ \A i \in DOMAIN v : v[i] >= Base64Alphabet

\* The bytes the file gets: the attribute's, decoded when it is Base64.
FileContent(v) == IF isBase64Encoded(v) THEN convertFromBase64(v) ELSE v

\* The records the remote store holds: one whose attributes are plain text and
\* one whose attributes are Base64.
FetchedRecords ==
    {[name |-> "a", entityId |-> "e1", value |-> <<1>>],
     [name |-> "b", entityId |-> "e2", value |-> convertToBase64(<<2, 3>>)]}

\* What a request can bring: a status that is not OK, a null payload, or up to
\* MaxRecords records.
Responses ==
    {[status |-> "notOk", value |-> <<>>], [status |-> "null", value |-> <<>>]}
    \cup {[status |-> "ok", value |-> rs] :
            rs \in UNION {[1..k -> FetchedRecords] : k \in 0..MaxRecords}}

\* The fields of a schema entry a fetch needs, and the entries the registry can
\* hold: the whole one, and those that lack one field.
SchemaFields ==
    {"exportType", "fileFolderName", "attributes", "attributesExtension",
     "fileNameField"}
SchemaEntries == {SchemaFields} \cup {SchemaFields \ {f} : f \in SchemaFields}

\* What a fetch has reported for one entity type: the request it has made and
\* what came back, the API telemetry, the error dialogs, the "Failed to fetch
\* file content." messages, the error telemetry and error messages of records,
\* and the files written and registered.
NoLog ==
    [response |-> "none", schema |-> SchemaFields, returned |-> 0, requests |-> 0,
     apiSuccess |-> 0, apiFailure |-> 0, errorDialogs |-> 0,
     fetchFailedMessages |-> 0, errorTelemetry |-> 0, errorMessages |-> 0,
     written |-> 0, registered |-> 0]

NoFetch ==
    [pc |-> "idle", requests |-> <<>>, records |-> <<>>,
     log |-> [t \in Range(EntityTypes) |-> NoLog]]

\* The status is not OK: "Failed to fetch file content." is shown and the
\* failure is sent to telemetry where it is found, and once more, with the
\* error dialog, where it is caught.
NotOk(l) ==
    [l EXCEPT !.fetchFailedMessages = @ + 1, !.apiFailure = @ + 2,
              !.errorDialogs = @ + 1]

\* The payload is null, reported as a request that is not OK.
NullPayloadAsNotOk(l) == NotOk(l)

\* The payload is null: the error dialog is shown and the failure is sent to
\* telemetry.
NullPayload(l) == [l EXCEPT !.apiFailure = @ + 1, !.errorDialogs = @ + 1]

\* The status is OK and there is a payload: the success is sent to telemetry.
Ok(l) == [l EXCEPT !.apiSuccess = @ + 1]

\* The fetch ends with the request that failed.
AfterFailureStops(requests) == <<>>

\* A request has failed and was reported: the fetch goes on with the entity
\* types that are left.
AfterFailure(requests) == Tail(requests)

\* The FileData of a file, registered as one that has dirty changes.
NewFileDataDirty(entityId) == [entityId |-> entityId, hasDirtyChanges |-> TRUE]

\* The FileData the fetch registers for a file it has written.
NewFileData(entityId) == [entityId |-> entityId, hasDirtyChanges |-> FALSE]

\* The record is reported once whatever it holds.
RecordErrorsOnce(l) ==
    [l EXCEPT !.errorTelemetry = 1, !.errorMessages = 1]

\* A record that cannot be made a file of: an error message is shown and the
\* error is sent to telemetry.
RecordError(l) ==
    [l EXCEPT !.errorTelemetry = @ + 1, !.errorMessages = @ + 1]

\* The files of one record, one for each attribute: the folder of the entity
\* type is created if it is absent, the file is written with create and
\* overwrite set, and its FileData is registered.  `m` is what was done so far:
\* the run of the provider's calls, the FileData map and the files written.
RECURSIVE CreateContentFiles(_, _, _, _)
CreateContentFiles(m, t, r, attrs) ==
    IF attrs = <<>> \/ m.s.err # "none" THEN m
    ELSE LET u == FilePath(t, r.name, Head(attrs))
             w == WriteFileWithin(CreateDirectoryWithin(m.s, EntityFolder(t)),
                                  u, FileContent(r.value))
         IN  CreateContentFiles(
                IF w.err # "none" THEN [m EXCEPT !.s = w]
                ELSE [s |-> w,
                      fdm |-> MapSet(m.fdm, u, NewFileData(r.entityId)),
                      written |-> m.written + 1],
                t, r, Tail(attrs))

\* fetchDataFromDataverseAndUpdateVFS(portalFs) begins: there is a request to
\* make for each entity type, in the order of the schema.
StartFetch(p) ==
    /\ ~Settled
    /\ calls[p].pc = "fetch"
    /\ fetch' = [NoFetch EXCEPT !.pc = "request", !.requests = EntityTypes]
    /\ calls' = [calls EXCEPT ![p] = [@ EXCEPT !.pc = "fetching"]]
    /\ fired' = <<>>
    /\ NoWrite
    /\ UNCHANGED <<fileDataMap, dataverseAccessToken, tokensIssued, patches,
                   lastCall, lastCreateDirectory, ops, isContextSet>>

\* The request of the next entity type is made and answered.  A status that
\* is not OK and a null payload are reported and the fetch goes on; records
\* are to be made files of, whatever the schema entry holds.
FetchRequest(p, response, schema) ==
    LET t == Head(fetch.requests)
        l == [fetch.log[t] EXCEPT !.requests = @ + 1,
                                  !.response = response.status,
                                  !.schema = schema,
                                  !.returned = Len(response.value)]
    IN  /\ ~Settled
        /\ calls[p].pc = "fetching"
        /\ fetch.pc = "request"
        /\ fetch.requests # <<>>
        /\ fetch' =
             IF response.status = "notOk"
             THEN [fetch EXCEPT !.log[t] = NotOk(l), !.requests = AfterFailure(@)]
             ELSE IF response.status = "null"
             THEN [fetch EXCEPT !.log[t] = NullPayload(l),
                                !.requests = AfterFailure(@)]
             ELSE IF response.value = <<>>
             THEN [fetch EXCEPT !.log[t] = Ok(l), !.requests = Tail(@)]
             ELSE [fetch EXCEPT !.log[t] = Ok(l), !.records = response.value,
                                !.pc = "records"]
        /\ fired' = <<>>
        /\ NoWrite
        /\ UNCHANGED <<fileDataMap, dataverseAccessToken, tokensIssued, patches,
                       calls, lastCall, lastCreateDirectory, ops, isContextSet>>

\* The next record of the response is made files of.  With a schema entry that
\* lacks a field, or a file that cannot be written, the record is reported
\* and the fetch goes on with the next; after the last record, with the next
\* entity type.
FetchRecord(p) ==
    LET t == Head(fetch.requests)
        l == fetch.log[t]
        r == Head(fetch.records)
        m == IF l.schema = SchemaFields
             THEN CreateContentFiles([s |-> Within(objects, now),
                                      fdm |-> fileDataMap, written |-> 0],
                                     t, r, AttributesOf(t))
             ELSE [s |-> [Within(objects, now) EXCEPT !.err = "SchemaIncomplete"],
                   fdm |-> fileDataMap, written |-> 0]
        done == [l EXCEPT !.written = @ + m.written, !.registered = @ + m.written]
    IN  /\ ~Settled
        /\ calls[p].pc = "fetching"
        /\ fetch.pc = "records"
        /\ Apply(m.s)
        /\ fileDataMap' = m.fdm
        /\ fetch' = [fetch EXCEPT
                        !.log[t] = IF m.s.err # "none" THEN RecordError(done)
                                   ELSE done,
                        !.records = Tail(@),
                        !.requests = IF Tail(fetch.records) = <<>> THEN Tail(@)
                                     ELSE @,
                        !.pc = IF Tail(fetch.records) = <<>> THEN "request"
                               ELSE "records"]
        /\ fired' = <<>>
        /\ UNCHANGED <<dataverseAccessToken, tokensIssued, patches, calls,
                       lastCall, lastCreateDirectory, ops, isContextSet>>

\* Every entity type was requested: the fetch resolves, and with it
\* _loadFromDataverseToVFS; the call that began the load goes on as after any
\* load.  What the fetch has reported is kept up to here.
FetchResolves(p) ==
    LET c == calls[p]
        d == IF c.op = "readFile" THEN ReadFileAfterLoad(objects, c) ELSE c
    IN  /\ ~Settled
        /\ c.pc = "fetching"
        /\ fetch.pc = "request"
        /\ fetch.requests = <<>>
        /\ fetch' = NoFetch
        /\ Finish(p, d, IF d.look.err # "none" /\ c.op = "readFile"
                        THEN d.look.err ELSE "ok")
        /\ fired' = <<>>
        /\ NoWrite
        /\ UNCHANGED <<fileDataMap, dataverseAccessToken, tokensIssued, patches,
                       lastCreateDirectory, ops, isContextSet>>

\* ------------------------------------------------------------------ machine
Init ==
    /\ objects = (RootId :> Directory("", 0))
    /\ fileDataMap = [u \in {} |-> [entityId |-> "none", hasDirtyChanges |-> FALSE]]
    /\ dataverseAccessToken = 0
    /\ tokensIssued = 0
    /\ bufferedEvents = <<>>
    /\ fireSoonHandle = NoHandle
    /\ timers = {}
    /\ fired = <<>>
    /\ patches = <<>>
    /\ now = 0
    /\ calls = [p \in Procs |-> Idle]
    /\ lastCall = NoCall
    /\ lastCreateDirectory = NoCreateDirectory
    /\ ops = 0
    /\ isContextSet = FALSE
    /\ fetch = NoFetch

\* Calls made one after the other, each awaited: a call is one step up to its
\* save, or to its end when it has none.
Next ==
    \/ /\ CallMayBegin /\ OneAtATime
       /\ \E p \in Procs, u \in Uris : createDirectory(p, u)
    \/ /\ CallMayBegin /\ OneAtATime
       /\ \E p \in Procs, u \in Uris, content \in Contents,
             create \in BOOLEAN, overwrite \in BOOLEAN :
             writeFile(p, u, content, create, overwrite)
    \/ /\ CallMayBegin /\ OneAtATime
       /\ \E p \in Procs, u \in FetchUris, content \in Contents, e \in EntityIds :
             FetchWriteFile(p, u, content, e)
    \/ ~Settled /\ \E p \in Procs : Reauthenticated(p)
    \/ ~Settled /\ \E p \in Procs, outcome \in SaveOutcomes : Saved(p, outcome)
    \/ ~Settled /\ \E p \in Procs : updateFileDetailsInContext(p)
    \/ Return
    \/ TaskMayRun /\ \E h \in timers : FireSoonTimeout(h)
    \/ TaskMayRun /\ \E u \in Uris : EditDocument(u)

Spec == Init /\ [][Next]_vars

\* Calls that overlap: every call is cut at each of its awaits, and a call may
\* be made while others are at an await.
NextOverlapping ==
    \/ CallMayBegin /\ \E p \in Procs, u \in Uris : CreateDirectoryCall(p, u)
    \/ ~Settled /\ \E p \in Procs : CreateDirectoryLookedUp(p)
    \/ ~Settled /\ \E p \in Procs : CreateDirectoryParentLookedUp(p)
    \/ /\ CallMayBegin
       /\ \E p \in Procs, u \in Uris, content \in Contents,
             create \in BOOLEAN, overwrite \in BOOLEAN :
             WriteFileCall(p, u, content, create, overwrite)
    \/ /\ CallMayBegin
       /\ \E p \in Procs, u \in FetchUris, content \in Contents, e \in EntityIds :
             FetchWriteFileCall(p, u, content, e)
    \/ ~Settled /\ \E p \in Procs : WriteFileParentLookedUp(p)
    \/ ~Settled /\ \E p \in Procs : Reauthenticated(p)
    \/ ~Settled /\ \E p \in Procs, outcome \in SaveOutcomes : Saved(p, outcome)
    \/ ~Settled /\ \E p \in Procs : updateFileDetailsInContext(p)
    \/ Return
    \/ TaskMayRun /\ \E h \in timers : FireSoonTimeout(h)
    \/ TaskMayRun /\ \E u \in Uris : EditDocument(u)

SpecOverlapping == Init /\ [][NextOverlapping]_vars

\* The editor reads as well as writes, and the session may be set up: a read
\* of what is not in the tree may load it from the remote store.  Nothing is
\* edited, so no write saves; the writes are there for the trees they make,
\* and are made with create and overwrite set and of one content.
NextRead ==
    \/ /\ CallMayBegin /\ OneAtATime
       /\ \E p \in Procs, u \in Uris : createDirectory(p, u)
    \/ /\ CallMayBegin /\ OneAtATime
       /\ \E p \in Procs, u \in WriteUris :
             writeFile(p, u, <<1>>, TRUE, TRUE)
    \/ /\ CallMayBegin /\ OneAtATime
       /\ \E p \in Procs, u \in ReadUris : stat(p, u)
    \/ /\ CallMayBegin /\ OneAtATime
       /\ \E p \in Procs, u \in ReadUris : readDirectory(p, u)
    \/ /\ CallMayBegin /\ OneAtATime
       /\ \E p \in Procs, u \in ReadUris : readFile(p, u)
    \/ /\ CallMayBegin /\ OneAtATime
       /\ \E p \in Procs, oldUri \in Uris, newUri \in RenameTargets :
             rename(p, oldUri, newUri)
    \/ /\ CallMayBegin /\ OneAtATime
       /\ \E p \in Procs, u \in Uris : delete_(p, u)
    \/ ~Settled /\ \E p \in Procs : Authenticated(p)
    \/ ~Settled /\ \E p \in Procs, records \in Records : Fetched(p, records)
    \/ TaskMayRun /\ setWebExtensionContext
    \/ Return
    \/ TaskMayRun /\ \E h \in timers : FireSoonTimeout(h)

SpecRead == Init /\ [][NextRead]_vars

\* The editor writes files the fetch provider has written and registered and
\* the user has edited, and the user may cancel the progress of a save.
NextSave ==
    \/ /\ CallMayBegin /\ OneAtATime
       /\ \E p \in Procs, u \in FetchUris, content \in Contents,
             create \in BOOLEAN, overwrite \in BOOLEAN :
             writeFile(p, u, content, create, overwrite)
    \/ /\ CallMayBegin /\ OneAtATime
       /\ \E p \in Procs, u \in FetchUris, content \in Contents, e \in EntityIds :
             FetchWriteFile(p, u, content, e)
    \/ ~Settled /\ \E p \in Procs : Reauthenticated(p)
    \/ ~Settled /\ \E p \in Procs, outcome \in SaveOutcomes : Saved(p, outcome)
    \/ ~Settled /\ \E p \in Procs : updateFileDetailsInContext(p)
    \/ TaskMayRun /\ \E p \in Procs : CancelProgress(p)
    \/ Return
    \/ TaskMayRun /\ \E h \in timers : FireSoonTimeout(h)
    \/ TaskMayRun /\ \E u \in FetchUris : EditDocument(u)

SpecSave == Init /\ [][NextSave]_vars

\* The URIs the editor reads when the session is set up: the root's and that
\* of a file the remote store may hold.
FetchReadUris == {rootDirectory, FilePath(EntityFolderName, "a", "x")}

\* The session is set up and the editor reads directories: the read of the
\* root loads the tree, the fetch of the load cut at each request and each
\* record.
NextFetch ==
    \/ TaskMayRun /\ setWebExtensionContext
    \/ /\ CallMayBegin /\ OneAtATime
       /\ \E p \in Procs, u \in FetchReadUris : readDirectory(p, u)
    \/ ~Settled /\ \E p \in Procs : Authenticated(p)
    \/ ~Settled /\ \E p \in Procs : StartFetch(p)
    \/ /\ ~Settled
       /\ \E p \in Procs, response \in Responses, schema \in SchemaEntries :
             FetchRequest(p, response, schema)
    \/ ~Settled /\ \E p \in Procs : FetchRecord(p)
    \/ ~Settled /\ \E p \in Procs : FetchResolves(p)
    \/ Return
    \/ TaskMayRun /\ \E h \in timers : FireSoonTimeout(h)

SpecFetch == Init /\ [][NextFetch]_vars

\* The URIs the editor reads while a load may be under way: the root's, with
\* and without its slash, and that of the file the remote store may hold.
OverlappingReadUris ==
    {rootDirectory, <<WebsiteName>>, <<WebsiteName, EntityFolderName, "a">>}

\* Reads that overlap: the session is set up, and a read may be made while
\* the load of another waits for the authentication or for the fetch.
NextOverlappingReads ==
    \/ TaskMayRun /\ setWebExtensionContext
    \/ /\ CallMayBegin
       /\ \E p \in Procs, u \in OverlappingReadUris : ReadDirectoryCall(p, u)
    \/ /\ CallMayBegin
       /\ \E p \in Procs, u \in OverlappingReadUris : ReadFileCall(p, u)
    \/ ~Settled /\ \E p \in Procs : Authenticated(p)
    \/ ~Settled /\ \E p \in Procs, records \in Records : Fetched(p, records)
    \/ Return
    \/ TaskMayRun /\ \E h \in timers : FireSoonTimeout(h)

SpecOverlappingReads == Init /\ [][NextOverlappingReads]_vars

\* The URIs the editor reads of a website it edits: the root's, that of the
\* file the remote store holds and that of a file it does not hold.
ReloadUris ==
    {rootDirectory, <<WebsiteName, EntityFolderName, "a">>,
     <<WebsiteName, EntityFolderName, "b">>}

\* The session is set up, the editor reads and the user edits what was
\* loaded: a read that misses loads again, over files that have dirty
\* changes.
NextReload ==
    \/ TaskMayRun /\ setWebExtensionContext
    \/ /\ CallMayBegin /\ OneAtATime
       /\ \E p \in Procs, u \in ReloadUris : readDirectory(p, u)
    \/ /\ CallMayBegin /\ OneAtATime
       /\ \E p \in Procs, u \in ReloadUris : readFile(p, u)
    \/ ~Settled /\ \E p \in Procs : Authenticated(p)
    \/ ~Settled /\ \E p \in Procs, records \in Records : FetchedClean(p, records)
    \/ /\ CallMayBegin
       /\ \E q \in Procs, r \in {records[1] : records \in Records \ {<<>>}} :
             LoadWriteFile(q, r)
    \/ ~Settled /\ \E p \in Procs : Reauthenticated(p)
    \/ ~Settled /\ \E p \in Procs, outcome \in SaveOutcomes : Saved(p, outcome)
    \/ ~Settled /\ \E p \in Procs : updateFileDetailsInContext(p)
    \/ Return
    \/ TaskMayRun /\ \E h \in timers : FireSoonTimeout(h)
    \/ TaskMayRun /\ \E u \in ReloadUris : EditDocument(u)

SpecReload == Init /\ [][NextReload]_vars

\* The URIs the editor reads there: the entity folder's as well.
LoadUris == ReloadUris \cup {<<WebsiteName, EntityFolderName>>}

\* The session is set up with whatever website name and schema: the editor
\* reads, and writes the path of the website's directory, and the reads load.
NextLoad ==
    \/ TaskMayRun /\ setWebExtensionContext
    \/ /\ CallMayBegin /\ OneAtATime
       /\ \E p \in Procs : writeFile(p, <<WebsiteName>>, <<1>>, TRUE, TRUE)
    \/ /\ CallMayBegin /\ OneAtATime
       /\ \E p \in Procs, u \in LoadUris : readDirectory(p, u)
    \/ /\ CallMayBegin /\ OneAtATime
       /\ \E p \in Procs, u \in LoadUris : readFile(p, u)
    \/ ~Settled /\ \E p \in Procs, l \in Loads : AuthenticatedOf(p, l)
    \/ ~Settled /\ \E p \in Procs, records \in Records : Fetched(p, records)
    \/ Return
    \/ TaskMayRun /\ \E h \in timers : FireSoonTimeout(h)

SpecLoad == Init /\ [][NextLoad]_vars

\* The timers that can be set: one for every call at most.
TimerIds == 1..MaxOps

\* What the event loop does for sure: a caller whose call has settled goes on,
\* a fetch that has written registers its file, and a timer that stays set
\* fires.  A timer that is cleared need not fire.
Fairness ==
    /\ WF_vars(Return)
    /\ WF_vars(\E p \in Procs : updateFileDetailsInContext(p))
    /\ \A h \in TimerIds : WF_vars(FireSoonTimeout(h))

SpecFair == Spec /\ Fairness

\* ------------------------------------------------------------ observations
\* The entry a path resolves to, NoEntry when it has none.
Resolve(objs, u) == Walk(objs, RootId, u)

IsFile(objs, id) == id # NoEntry /\ objs[id].type = "File"
IsDirectory(objs, id) == id # NoEntry /\ objs[id].type = "Directory"

\* The file of the path is registered and its flag is set.
DirtyIn(fdm, u) == u \in DOMAIN fdm /\ fdm[u].hasDirtyChanges

\* A call is made in this step ...
Made == ops' = ops + 1

\* ... and this is its record after the step: what it settled with, or where
\* it waits.
MadeCall ==
    IF lastCall' # lastCall THEN lastCall'
    ELSE calls'[CHOOSE p \in Procs : calls'[p] # calls[p]]

\* A call of the method is made in this step.
MadeOp(op) == Made /\ MadeCall.op = op

\* A call settles in this step.
Settles == ~Settled /\ Settled'

\* ------------------------------------------------------------------ writeFile
\* C1, as stated: a writeFile with create = false on a path that has no entry
\* fails with FileNotFound, whatever the tree, the content and `overwrite`.
WriteFileAbsentIsNotFound ==
    [][(MadeOp("writeFile") /\ ~MadeCall.create
            /\ Resolve(objects, MadeCall.uri) = NoEntry)
        => (Settled' /\ lastCall'.result = "FileNotFound")]_vars

\* C1, amended: a writeFile with create = false on a path that has no entry
\* fails and writes nothing: with FileNotADirectory when the path of the parent
\* resolves to a File, with FileNotFound in every other case.
WriteFileAbsentFails ==
    [][(MadeOp("writeFile") /\ ~MadeCall.create
            /\ Resolve(objects, MadeCall.uri) = NoEntry)
        => /\ Settled'
           /\ lastCall'.result =
                IF IsFile(objects, Resolve(objects, dirname(MadeCall.uri)))
                THEN "FileNotADirectory" ELSE "FileNotFound"
           /\ objects' = objects]_vars

\* C1, witness: such a call below a File has failed with FileNotADirectory.
WriteFileBelowFileFailed ==
    /\ lastCall.op = "writeFile"
    /\ ~lastCall.create
    /\ Resolve(objects, lastCall.uri) = NoEntry
    /\ IsFile(objects, Resolve(objects, dirname(lastCall.uri)))
    /\ lastCall.result = "FileNotADirectory"

\* C2, as stated: a writeFile with create = true and overwrite = false on a
\* path that has an entry, of whatever kind, fails with FileExists.  The path
\* is taken below the root, where the entry is the one writeFile looks at.
WriteFilePresentIsExists ==
    [][(MadeOp("writeFile") /\ MadeCall.create /\ ~MadeCall.overwrite
            /\ basename(MadeCall.uri) # ""
            /\ Resolve(objects, MadeCall.uri) # NoEntry)
        => (Settled' /\ lastCall'.result = "FileExists")]_vars

\* C2, amended: a writeFile with create = true and overwrite = false on a
\* path that resolves to a File fails with FileExists and leaves the File as
\* it was, dirty or not.
WriteFileOnFileIsExists ==
    [][(MadeOp("writeFile") /\ MadeCall.create /\ ~MadeCall.overwrite
            /\ IsFile(objects, Resolve(objects, MadeCall.uri)))
        => /\ Settled'
           /\ lastCall'.result = "FileExists"
           /\ objects' = objects]_vars

\* C2, witness: such a call on a File that holds content has failed with
\* FileExists.
WriteFileOnFileFailed ==
    /\ lastCall.op = "writeFile"
    /\ lastCall.create /\ ~lastCall.overwrite
    /\ IsFile(objects, Resolve(objects, lastCall.uri))
    /\ objects[Resolve(objects, lastCall.uri)].data # <<>>
    /\ lastCall.result = "FileExists"

\* ------------------------------------------------------------------ save
\* The call is at its save: re-authenticating, or waiting for saveData.
Saving(c) == c.pc \in {"reAuthenticate", "saveData"}

DirtyUntilSaved ==
    [][\A u \in DOMAIN fileDataMap :
          (fileDataMap[u].hasDirtyChanges /\ ~fileDataMap'[u].hasDirtyChanges)
          => /\ Settled'
             /\ lastCall'.op = "writeFile"
             /\ lastCall'.uri = u
             /\ lastCall'.save = "saved"]_vars

\* C4, amended: the dirty flag of a file is cleared only by a save of that
\* file that succeeds, or by the fetch provider registering the file anew once
\* it has rewritten it; a save that fails leaves the flag set, and a writeFile
\* that finds the flag set on an existing File it may write goes to a save.
DirtyUntilSavedOrFetched ==
    [][/\ \A u \in DOMAIN fileDataMap :
            (fileDataMap[u].hasDirtyChanges /\ ~fileDataMap'[u].hasDirtyChanges)
            => \/ /\ Settled'
                  /\ lastCall'.op = "writeFile"
                  /\ lastCall'.uri = u
                  /\ lastCall'.save = "saved"
               \/ \E p \in Procs : calls[p].pc = "register" /\ calls[p].uri = u
       /\ (Settles /\ lastCall'.save \in {"failed", "thrown"})
          => DirtyIn(fileDataMap', lastCall'.uri)
       /\ (Settles /\ lastCall'.save = "saved")
          => ~DirtyIn(fileDataMap', lastCall'.uri)
       /\ (MadeOp("writeFile") /\ IsFile(objects, Resolve(objects, MadeCall.uri))
              /\ DirtyIn(fileDataMap, MadeCall.uri)
              /\ (MadeCall.create => MadeCall.overwrite))
          => (~Settled' /\ MadeCall.pc = "reAuthenticate")]_vars

\* C4, witness: a writeFile has written after a save that failed, and the
\* flag of the file is still set.
WriteFileSaveFailed ==
    /\ lastCall.op = "writeFile"
    /\ lastCall.result = "ok"
    /\ lastCall.save = "failed"
    /\ Len(patches) = 1
    /\ DirtyIn(fileDataMap, lastCall.uri)

\* C5: every PATCH is sent in the step that follows the re-authentication of
\* its own save, with the token the context holds after it: the token issued
\* last, never the one the context held before.
PatchWithFreshToken ==
    [][patches' # patches
        => \E p \in Procs :
            /\ calls[p].pc = "reAuthenticate"
            /\ tokensIssued' = tokensIssued + 1
            /\ dataverseAccessToken' = tokensIssued'
            /\ patches' = Append(patches, patches'[Len(patches')])
            /\ patches'[Len(patches')].uri = calls[p].uri
            /\ patches'[Len(patches')].token = dataverseAccessToken'
            /\ patches'[Len(patches')].token # dataverseAccessToken]_vars

\* C5, witness: a PATCH was sent with the token of the re-authentication,
\* the context holding another before.
PatchSentWithFreshToken ==
    /\ Len(patches) = 1
    /\ patches[1].token = dataverseAccessToken
    /\ patches[1].token = 1
    /\ \E p \in Procs : calls[p].pc = "saveData"

\* ------------------------------------------------------- writeFile, written
\* C6: when a writeFile has succeeded, the path resolves to a File that holds
\* the content, its size is the content's length, and the call has buffered
\* Changed for the URI, after Created for the URI when the path had no entry.
WriteFileWritesThePath ==
    [][(Settles /\ lastCall'.op = "writeFile" /\ lastCall'.result = "ok")
        => LET u == lastCall'.uri
               f == Resolve(objects', u)
           IN  /\ IsFile(objects', f)
               /\ objects'[f].data = lastCall'.content
               /\ objects'[f].size = Len(lastCall'.content)
               /\ bufferedEvents' = bufferedEvents \o
                    (IF OneAtATime /\ Resolve(objects, u) = NoEntry
                     THEN <<Created(u), Changed(u)>> ELSE <<Changed(u)>>)]_vars

\* C7: a writeFile on a path that resolves to a Directory fails with
\* FileIsADirectory, whatever `create` and `overwrite`, and leaves the tree as
\* it was.
WriteFileOnDirectoryFails ==
    [][(MadeOp("writeFile") /\ IsDirectory(objects, Resolve(objects, MadeCall.uri)))
        => /\ Settled'
           /\ lastCall'.result = "FileIsADirectory"
           /\ objects' = objects]_vars

\* ------------------------------------------------------------ createDirectory
\* The entry the createDirectory that returned last made or found.
LastDirectory(objs) ==
    IF lastCreateDirectory.entry # NoEntry THEN lastCreateDirectory.entry
    ELSE Resolve(objs, lastCreateDirectory.uri)

\* C8, as stated: of two successive createDirectory calls on the same URI that
\* succeed, the second leaves one Directory at the path, changes nothing in
\* the tree and buffers no event.
CreateDirectoryTwiceIsOneDirectory ==
    [][(MadeOp("createDirectory") /\ MadeCall.uri = lastCreateDirectory.uri)
        => /\ Settled'
           /\ lastCall'.result = "ok"
           /\ IsDirectory(objects', Resolve(objects', MadeCall.uri))
           /\ objects' = objects
           /\ bufferedEvents' = bufferedEvents]_vars

\* C8, amended: of two successive createDirectory calls on the same URI that
\* succeed, the second leaves at the path the one entry the first has made or
\* found there, a Directory unless the first has found a File, changes nothing
\* in the tree and buffers no event.
CreateDirectoryTwiceIsOneEntry ==
    [][(MadeOp("createDirectory") /\ MadeCall.uri = lastCreateDirectory.uri)
        => /\ Settled'
           /\ lastCall'.result = "ok"
           /\ lastCall'.entry = NoEntry
           /\ Resolve(objects', MadeCall.uri) = LastDirectory(objects)
           /\ LastDirectory(objects) # NoEntry
           /\ lastCreateDirectory.entry # NoEntry
              => IsDirectory(objects', lastCreateDirectory.entry)
           /\ objects' = objects
           /\ bufferedEvents' = bufferedEvents]_vars

\* C8, witness: the second of two such calls has returned, the first having
\* made the Directory and buffered its events.
CreateDirectoryCalledTwice ==
    /\ lastCall.op = "createDirectory"
    /\ lastCall.result = "ok"
    /\ lastCall.uri = lastCreateDirectory.uri
    /\ lastCreateDirectory.entry # NoEntry
    /\ Resolve(objects, lastCall.uri) = lastCreateDirectory.entry
    /\ Len(bufferedEvents) = 2

\* C9: a createDirectory on a path that has no entry and whose parent path has
\* none fails with FileNotFound, leaves the tree as it was and buffers
\* nothing.
CreateDirectoryNeedsParent ==
    [][(MadeOp("createDirectory") /\ Resolve(objects, MadeCall.uri) = NoEntry
            /\ Resolve(objects, dirname(MadeCall.uri)) = NoEntry)
        => /\ Settled'
           /\ lastCall'.result = "FileNotFound"
           /\ objects' = objects
           /\ bufferedEvents' = bufferedEvents
           /\ fireSoonHandle' = fireSoonHandle]_vars

\* C9, witness: such a call has failed, two levels below the root.
CreateDirectoryWithoutParentFailed ==
    /\ lastCall.op = "createDirectory"
    /\ lastCall.result = "FileNotFound"
    /\ Len(StripTrailing(lastCall.uri)) = 2
    /\ Resolve(objects, dirname(lastCall.uri)) = NoEntry
    /\ DOMAIN objects = {RootId}
    /\ bufferedEvents = <<>>

\* C10: a createDirectory that makes a Directory buffers two events, Changed
\* for the parent's URI and then Created for the new URI, and adds one to the
\* parent's size; a createDirectory that finds an entry buffers none.
CreateDirectoryBuffersTwo ==
    [][MadeOp("createDirectory")
        => LET u == MadeCall.uri
               parent == Resolve(objects, dirname(u))
           IN  /\ Settled'
               /\ (lastCall'.result = "ok" /\ Resolve(objects, u) = NoEntry)
                  => /\ bufferedEvents' =
                            bufferedEvents \o <<Changed(dirname(u)), Created(u)>>
                     /\ IsDirectory(objects', Resolve(objects', u))
                     /\ Resolve(objects', u) \notin DOMAIN objects
                     /\ objects'[parent].size = objects[parent].size + 1
               /\ Resolve(objects, u) # NoEntry
                  => /\ lastCall'.result = "ok"
                     /\ bufferedEvents' = bufferedEvents
                     /\ objects' = objects]_vars

\* C10, witness: a createDirectory has made a Directory below another, whose
\* size is one, and the buffer ends with its two events.
CreateDirectoryMadeOne ==
    /\ lastCall.op = "createDirectory"
    /\ lastCall.result = "ok"
    /\ lastCall.entry # NoEntry
    /\ Len(StripTrailing(lastCall.uri)) = 2
    /\ objects[Resolve(objects, dirname(lastCall.uri))].size = 1
    /\ Len(bufferedEvents) >= 2
    /\ SubSeq(bufferedEvents, Len(bufferedEvents) - 1, Len(bufferedEvents))
         = <<Changed(dirname(lastCall.uri)), Created(lastCall.uri)>>

\* ------------------------------------------------------------ rename, delete
\* C11: a rename or a delete fails at once, whatever the state and whatever it
\* is called with, and leaves the tree, the FileData map, the buffered events
\* and the timer as they were.
RenameAndDeleteFail ==
    [][(Made /\ MadeCall.op \in {"rename", "delete"})
        => /\ Settled'
           /\ lastCall'.result = "Method not implemented."
           /\ objects' = objects
           /\ fileDataMap' = fileDataMap
           /\ bufferedEvents' = bufferedEvents
           /\ timers' = timers]_vars

\* C11, witness: a rename has failed in a state with a loaded file, its
\* FileData and events that wait.
RenameFailedOnLoadedTree ==
    /\ lastCall.op = "rename"
    /\ lastCall.result = "Method not implemented."
    /\ DOMAIN fileDataMap # {}
    /\ bufferedEvents # <<>>

\* ------------------------------------------------------------------ stat
\* C12: a stat of a path that has no entry fails with FileNotFound; stat
\* begins no load, for no path, so that nothing materializes the path; a stat
\* of a path that has an entry returns that entry.  The tree stays as it was.
StatAbsentIsNotFound ==
    [][MadeOp("stat")
        => LET id == Resolve(objects, MadeCall.uri)
           IN  /\ Settled'
               /\ id = NoEntry => lastCall'.result = "FileNotFound"
               /\ id # NoEntry => (lastCall'.result = "ok" /\ lastCall'.entry = id)
               /\ lastCall'.loads = 0
               /\ \A p \in Procs : calls'[p].pc = "idle"
               /\ objects' = objects
               /\ tokensIssued' = tokensIssued]_vars

\* C12, witness: with the context set, a stat has failed with FileNotFound on
\* a path for which a readFile would load.
StatFailedWhereReadFileLoads ==
    /\ lastCall.op = "stat"
    /\ lastCall.result = "FileNotFound"
    /\ isContextSet
    /\ lastCall.uri = <<WebsiteName, EntityFolderName, "a">>
    /\ Resolve(objects, lastCall.uri) = NoEntry

\* -------------------------------------------------------------- readDirectory
\* The URI is the root's but for the case of its letters.
IsRootUri(u) == u \in {rootDirectory, <<"W", "">>}

\* C13: when a readDirectory that has loaded returns and its path resolves to
\* a Directory, the list it returns is the list of that Directory's children.
ReadDirectoryListsWhatWasLoaded ==
    [][(Settles /\ lastCall'.op = "readDirectory" /\ lastCall'.loads = 1
            /\ lastCall'.result = "ok"
            /\ IsDirectory(objects', Resolve(objects', lastCall'.uri)))
        => lastCall'.list =
             {<<n, objects'[objects'[Resolve(objects', lastCall'.uri)].entries[n]].type>> :
                n \in DOMAIN objects'[Resolve(objects', lastCall'.uri)].entries}]_vars

\* C14, as stated: a readDirectory begins a load when, and only when, its path
\* has no entry, the context is set and its URI is the root's.
ReadDirectoryLoadsOnRootOnly ==
    [][MadeOp("readDirectory")
        => (MadeCall.loads = 1
            <=> /\ Resolve(objects, MadeCall.uri) = NoEntry
                /\ isContextSet
                /\ MadeCall.uri = rootDirectory)]_vars

\* C14, amended: a readDirectory begins a load when, and only when, its path
\* has no entry, the context is set and its URI is the root's but for the case
\* of its letters; it begins the load in its first step and none later, so one
\* at most, and looks its path up once; with no load it returns at once.
ReadDirectoryLoadsOnce ==
    [][/\ MadeOp("readDirectory")
          => /\ MadeCall.loads =
                  IF /\ Resolve(objects, MadeCall.uri) = NoEntry
                     /\ isContextSet
                     /\ IsRootUri(MadeCall.uri)
                  THEN 1 ELSE 0
             /\ MadeCall.loads = 0 <=> Settled'
             /\ (~Settled') => MadeCall.pc = "authenticate"
             /\ tokensIssued' = tokensIssued
       /\ \A p \in Procs :
            (calls[p].op = "readDirectory" /\ calls'[p] # calls[p])
            => /\ calls[p].loads = 1
               /\ tokensIssued' = tokensIssued + (IF calls[p].pc = "authenticate" THEN 1 ELSE 0)
               /\ IF Settled'
                  THEN lastCall'.loads = 1 /\ lastCall'.lookups = 1
                  ELSE /\ calls[p].pc = "authenticate"
                       /\ calls'[p] = [calls[p] EXCEPT !.pc = "fetch"]]_vars

\* C14, witness: a readDirectory of the root in upper case has loaded and
\* returned, the root being in the tree from a load before.
ReadDirectoryLoadedForUpperCase ==
    /\ lastCall.op = "readDirectory"
    /\ lastCall.uri = <<"W", "">>
    /\ lastCall.loads = 1
    /\ lastCall.result = "ok"
    /\ tokensIssued = 2

\* C17: a readDirectory whose lookup fails, the path having no entry and the
\* URI not being the root's, or the path resolving to a File, fails with the
\* error of the lookup: FileNotFound or FileNotADirectory.
ReadDirectoryLookupFailurePropagates ==
    [][(MadeOp("readDirectory") /\ ~IsRootUri(MadeCall.uri)
            /\ ~IsDirectory(objects, Resolve(objects, MadeCall.uri)))
        => /\ Settled'
           /\ lastCall'.result =
                IF Resolve(objects, MadeCall.uri) = NoEntry THEN "FileNotFound"
                ELSE "FileNotADirectory"]_vars

\* ------------------------------------------------------------------ readFile
\* A readFile of the path would load: the path has no entry, the context is
\* set, the URI begins with the root's and holds the entity folder's name.
WouldLoad(objs, u) ==
    /\ Resolve(objs, u) = NoEntry
    /\ isContextSet
    /\ Len(u) >= 2 /\ u[1] = WebsiteName
    /\ \E i \in 1..Len(u) : u[i] = EntityFolderName

\* C15, as stated: a readFile that has begun a load looks its path up again,
\* exactly once, before it is over.
ReadFileAlwaysRetries ==
    [][(Settles /\ lastCall'.op = "readFile" /\ lastCall'.loads = 1)
        => lastCall'.lookups = 2]_vars

\* C15, amended: a readFile begins a load when, and only when, its path has no
\* entry, the context is set, the URI begins with the root's and holds the
\* entity folder's name; it begins it in its first step and none later.  When
\* the load is over it looks the path up once more and is over itself, with
\* the bytes of the File or the error of that lookup; when the load throws, the
\* call fails with what was thrown and looks nothing up again.
ReadFileLoadsOnceRetriesOnce ==
    [][/\ MadeOp("readFile")
          => /\ MadeCall.loads = IF WouldLoad(objects, MadeCall.uri) THEN 1 ELSE 0
             /\ MadeCall.lookups = 1
             /\ MadeCall.loads = 0 <=> Settled'
             /\ (~Settled') => MadeCall.pc = "authenticate"
             /\ tokensIssued' = tokensIssued
       /\ \A p \in Procs :
            (calls[p].op = "readFile" /\ calls'[p] # calls[p])
            => /\ calls[p].loads = 1
               /\ calls[p].lookups = 1
               /\ IF calls[p].pc = "authenticate"
                  THEN /\ tokensIssued' = tokensIssued + 1
                       /\ IF Settled'
                          THEN /\ lastCall'.result \notin {"ok", "FileNotFound"}
                               /\ lastCall'.loads = 1
                               /\ lastCall'.lookups = 1
                          ELSE calls'[p] = [calls[p] EXCEPT !.pc = "fetch"]
                  ELSE /\ calls[p].pc = "fetch"
                       /\ tokensIssued' = tokensIssued
                       /\ Settled'
                       /\ lastCall'.loads = 1
                       /\ lastCall'.lookups = 2
                       /\ LET id == Resolve(objects', lastCall'.uri)
                          IN  /\ IsFile(objects', id)
                                 => /\ lastCall'.result = "ok"
                                    /\ lastCall'.data = objects'[id].data
                              /\ IsDirectory(objects', id)
                                 => lastCall'.result = "FileIsADirectory"
                              /\ id = NoEntry
                                 => lastCall'.result = "FileNotFound"]_vars

\* C15, witness: a readFile has loaded, looked its path up again and returned
\* the bytes the load has brought.
ReadFileReadWhatWasLoaded ==
    /\ lastCall.op = "readFile"
    /\ lastCall.loads = 1
    /\ lastCall.lookups = 2
    /\ lastCall.result = "ok"
    /\ lastCall.data = <<2, 3>>

\* C16: a readFile whose path does not resolve to a File, and for which no
\* load is due, the path being a Directory's or having no entry while the
\* context is not set, the URI does not begin with the root's or does not hold
\* the entity folder's name, returns no bytes at once, without an error and
\* without a load, and leaves the tree as it was.
ReadFileSoftFails ==
    [][(MadeOp("readFile") /\ ~IsFile(objects, Resolve(objects, MadeCall.uri))
            /\ ~WouldLoad(objects, MadeCall.uri))
        => /\ Settled'
           /\ lastCall'.result = "ok"
           /\ lastCall'.data = <<>>
           /\ lastCall'.loads = 0
           /\ lastCall'.lookups = 1
           /\ \A p \in Procs : calls'[p].pc = "idle"
           /\ objects' = objects
           /\ fileDataMap' = fileDataMap
           /\ tokensIssued' = tokensIssued]_vars

\* C16, witness: with the context set, a readFile of a path below the root
\* that has no entry and does not hold the entity folder's name has returned
\* no bytes.
ReadFileReturnedNoBytes ==
    /\ lastCall.op = "readFile"
    /\ lastCall.uri = <<WebsiteName, "a">>
    /\ isContextSet
    /\ Resolve(objects, lastCall.uri) = NoEntry
    /\ lastCall.result = "ok"
    /\ lastCall.data = <<>>
    /\ lastCall.loads = 0

\* ------------------------------------------------------------------ events
\* A timer fires in this step: it is set no more, and none was set in its
\* place.
TimerFires ==
    \E h \in timers : h \notin timers' /\ fireSoonHandle' = fireSoonHandle

\* C18: the events are delivered once each and in the order in which they
\* were buffered: a step in which no timer fires delivers nothing and leaves
\* the events that wait where they are, new ones coming after them; a step in
\* which the timer fires delivers all that wait, in their order, and none of
\* them waits any longer.
EventsDeliveredOnceInOrder ==
    [][IF TimerFires
       THEN /\ fired' = bufferedEvents
            /\ bufferedEvents' = <<>>
       ELSE /\ fired' = <<>>
            /\ Len(bufferedEvents') >= Len(bufferedEvents)
            /\ SubSeq(bufferedEvents', 1, Len(bufferedEvents)) = bufferedEvents]_vars

\* C18, witness: the events of a createDirectory and of a writeFile after it
\* have been delivered, the four in the order of the two calls.
TwoCallsDelivered ==
    fired = <<Changed(<<"">>), Created(<<"a">>),
              Created(<<"a", "a">>), Changed(<<"a", "a">>)>>

\* C19: one timer at most is set, and one is set exactly when events wait;
\* a call that buffers events sets a timer of its own in place of the one that
\* was set; the timer that fires delivers all the events that wait as one
\* batch, which is not empty, and leaves none waiting and no timer set.
OneTimerOneBatch ==
    [][/\ Cardinality(timers') <= 1
       /\ timers' \subseteq {fireSoonHandle'}
       /\ (timers' # {}) <=> (bufferedEvents' # <<>>)
       /\ Len(bufferedEvents') > Len(bufferedEvents)
          => /\ fireSoonHandle' \notin timers \cup {fireSoonHandle}
             /\ timers' = {fireSoonHandle'}
       /\ TimerFires
          => /\ fired' = bufferedEvents
             /\ fired' # <<>>
             /\ bufferedEvents' = <<>>
             /\ timers' = {}]_vars

\* C19, witness: the events of two calls were delivered as one batch by the
\* timer of the second call, and none waits.
SecondTimerDeliveredBoth ==
    /\ Len(fired) = 3
    /\ fireSoonHandle = 2
    /\ timers = {}
    /\ bufferedEvents = <<>>

CancelIsPresentationOnly ==
    [][\A p \in Procs :
         /\ (~calls[p].cancelled /\ calls'[p].cancelled /\ calls[p].pc # "idle")
            => /\ calls'[p] = [calls[p] EXCEPT !.cancelled = TRUE]
               /\ UNCHANGED <<objects, fileDataMap, patches, lastCall,
                              bufferedEvents, timers, dataverseAccessToken>>
         /\ (calls[p].cancelled /\ calls[p].pc = "reAuthenticate"
                /\ calls'[p] # calls[p])
            => /\ calls'[p].pc = "saveData"
               /\ calls'[p].cancelled
               /\ Len(patches') = Len(patches) + 1
               /\ patches'[Len(patches')].uri = calls[p].uri
               /\ patches'[Len(patches')].data = objects[calls[p].entry].data
               /\ objects' = objects
         /\ (calls[p].cancelled /\ calls[p].pc = "saveData"
                /\ calls'[p] # calls[p])
            => /\ Settled'
               /\ lastCall'.cancelled
               /\ (lastCall'.save = "thrown") = (lastCall'.result # "ok")
               /\ lastCall'.save = "saved"
                  => ~DirtyIn(fileDataMap', calls[p].uri)
               /\ lastCall'.result = "ok"
                  => /\ objects' = SetContent(objects, calls[p].entry,
                                               calls[p].content, now')
                     /\ bufferedEvents' =
                            bufferedEvents \o <<Changed(calls[p].uri)>>]_vars

\* C21, witness: a writeFile whose progress was cancelled has sent its PATCH,
\* the save has succeeded and the File holds the new content.
CancelledSaveWritten ==
    /\ lastCall.op = "writeFile"
    /\ lastCall.cancelled
    /\ lastCall.save = "saved"
    /\ lastCall.result = "ok"
    /\ Len(patches) = 1
    /\ objects[lastCall.entry].data = lastCall.content
    /\ patches[1].data # lastCall.content

\* ------------------------------------------------------------ fetch provider
\* The fetch has made its request for the entity type and has gone through
\* what came back.
Answered(t) == fetch.log[t].requests = 1 /\ t \notin Range(fetch.requests)

\* The request for the entity type has failed: not OK, or a null payload.
Failed(t) == fetch.log[t].response \in {"notOk", "null"}

\* The request has brought records and the schema entry lacks a field.
SchemaIncomplete(t) ==
    fetch.log[t].response = "ok" /\ fetch.log[t].schema # SchemaFields

\* Every request of the fetch is made and answered: it is about to resolve.
FetchIsOver == fetch.pc = "request" /\ fetch.requests = <<>>

\* C22: a fetch under way ends in one way only, by resolving, and the call
\* that began its load returns; by then every entity type was requested once,
\* whatever the requests before it came to, and every entity type whose
\* request brought records under a whole schema entry has its folder and a
\* file written and registered for each attribute of each record.
FetchAlwaysResolves ==
    [][(fetch.pc # "idle" /\ (fetch'.pc = "idle" \/ Settled'))
        => /\ FetchIsOver
           /\ Settled'
           /\ lastCall'.result = "ok"
           /\ \A t \in Range(EntityTypes) :
                /\ fetch.log[t].requests = 1
                /\ (fetch.log[t].response = "ok"
                        /\ fetch.log[t].schema = SchemaFields)
                   => /\ fetch.log[t].written =
                            fetch.log[t].returned * Len(AttributesOf(t))
                      /\ fetch.log[t].returned > 0
                         => IsDirectory(objects, Resolve(objects, EntityFolder(t)))]_vars

\* C22, witness: the request of the first entity type was not OK, the second
\* has brought two records under a whole schema entry, their files are
\* written and the fetch is about to resolve.
FetchWentOnAfterFailure ==
    /\ FetchIsOver
    /\ fetch.log[EntityTypes[1]].response = "notOk"
    /\ fetch.log[EntityTypes[2]].response = "ok"
    /\ fetch.log[EntityTypes[2]].schema = SchemaFields
    /\ fetch.log[EntityTypes[2]].written = 2
    /\ IsFile(objects, Resolve(objects, FilePath(EntityTypes[2], "a", "x")))
    /\ IsFile(objects, Resolve(objects, FilePath(EntityTypes[2], "b", "x")))

\* C23, as stated: when the schema entry of an entity type lacks a field and
\* its request has brought records, one error telemetry event and one error
\* message are recorded for the entity type, however many the records.
SchemaFailureReportedOnce ==
    \A t \in Range(EntityTypes) :
        (Answered(t) /\ SchemaIncomplete(t) /\ fetch.log[t].returned >= 1)
        => /\ fetch.log[t].errorTelemetry = 1
           /\ fetch.log[t].errorMessages = 1

\* C24: when the schema entry of an entity type lacks a field, the fetch has
\* made one request for it, has recorded one error telemetry event and shown
\* one error message for each record the request has brought, has written no
\* file for it, and resolves.
SchemaFailureReportedPerRecord ==
    [][/\ \A t \in Range(EntityTypes) :
            (Answered(t) /\ SchemaIncomplete(t))
            => /\ fetch.log[t].requests = 1
               /\ fetch.log[t].errorTelemetry = fetch.log[t].returned
               /\ fetch.log[t].errorMessages = fetch.log[t].returned
               /\ fetch.log[t].written = 0
       /\ (fetch.pc = "records" /\ SchemaIncomplete(Head(fetch.requests)))
          => /\ objects' = objects
             /\ fileDataMap' = fileDataMap
             /\ ~Settled'
       /\ (FetchIsOver /\ fetch' # fetch)
          => (Settled' /\ lastCall'.result = "ok")]_vars

\* C24, witness: a request has brought two records under a schema entry that
\* lacks its file-name field; two events and two messages are recorded and the
\* fetch is about to resolve.
TwoRecordsTwoErrors ==
    /\ FetchIsOver
    /\ \E t \in Range(EntityTypes) :
        /\ fetch.log[t].response = "ok"
        /\ fetch.log[t].schema = SchemaFields \ {"fileNameField"}
        /\ fetch.log[t].returned = 2
        /\ fetch.log[t].errorTelemetry = 2
        /\ fetch.log[t].errorMessages = 2

\* C25: a request that is not OK or brings a null payload shows the error
\* dialog once and writes nothing, in the step that answers it and ever after;
\* "Failed to fetch file content." is shown once for a request that is not OK
\* and not at all for any other.
FailedRequestShowsOneDialog ==
    [][/\ \A t \in Range(EntityTypes) :
            /\ (fetch.log[t].requests = 1 /\ Failed(t))
               => /\ fetch.log[t].errorDialogs = 1
                  /\ fetch.log[t].written = 0
                  /\ fetch.log[t].registered = 0
                  /\ t \notin Range(fetch.requests)
            /\ fetch.log[t].fetchFailedMessages =
                    IF fetch.log[t].response = "notOk" THEN 1 ELSE 0
       /\ (fetch.pc = "request" /\ fetch'.pc = "request" /\ fetch' # fetch
              /\ fetch.requests # <<>>
              /\ fetch'.log[Head(fetch.requests)].response # "ok")
          => (objects' = objects /\ fileDataMap' = fileDataMap)]_vars

\* C25, witness: of the two requests of a fetch one was not OK and one has
\* brought a null payload: a dialog is shown for each and one "Failed to fetch
\* file content." in all.
OneNotOkOneNull ==
    /\ FetchIsOver
    /\ fetch.log[EntityTypes[1]].response = "null"
    /\ fetch.log[EntityTypes[2]].response = "notOk"
    /\ fetch.log[EntityTypes[1]].errorDialogs = 1
    /\ fetch.log[EntityTypes[2]].errorDialogs = 1
    /\ fetch.log[EntityTypes[1]].fetchFailedMessages = 0
    /\ fetch.log[EntityTypes[2]].fetchFailedMessages = 1
    /\ DOMAIN fileDataMap = {}

\* C26, as stated: every request a fetch has made has one API outcome event:
\* one success or one failure, never both and never two.
OneApiOutcomePerRequest ==
    \A t \in Range(EntityTypes) :
        fetch.log[t].requests = 1
        => fetch.log[t].apiSuccess + fetch.log[t].apiFailure = 1

\* C27: the step in which a fetch makes files of a record writes, for each
\* attribute, a File, and registers FileData for the path of that File, with the id of the record and no dirty
\* changes; it registers nothing else, and the fetch has registered as many
\* files as it has written, at every moment.
FetchRegistersWhatItWrites ==
    [][/\ \A t \in Range(EntityTypes) :
            fetch.log[t].written = fetch.log[t].registered
       /\ (fetch.pc = "records" /\ fetch' # fetch)
          => LET t == Head(fetch.requests)
                 r == Head(fetch.records)
                 paths == IF fetch.log[t].schema = SchemaFields
                          THEN {FilePath(t, r.name, AttributesOf(t)[i]) :
                                    i \in DOMAIN AttributesOf(t)}
                          ELSE {}
             IN  /\ \A u \in paths :
                        /\ IsFile(objects', Resolve(objects', u))
                        /\ u \in DOMAIN fileDataMap'
                        /\ fileDataMap'[u].entityId = r.entityId
                        /\ ~fileDataMap'[u].hasDirtyChanges
                 /\ DOMAIN fileDataMap' = DOMAIN fileDataMap \cup paths
                 /\ \A u \in DOMAIN fileDataMap \ paths :
                        fileDataMap'[u] = fileDataMap[u]
                 /\ fetch'.log[t].written =
                        fetch.log[t].written + Cardinality(paths)
                 /\ fetch'.log[t].registered =
                        fetch.log[t].registered + Cardinality(paths)]_vars

\* C27, witness: a fetch has written the two files of each of two records of
\* the first entity type and has registered the four, none with dirty
\* changes.
FourFilesFourFileData ==
    /\ FetchIsOver
    /\ fetch.log[EntityTypes[1]].written = 4
    /\ fetch.log[EntityTypes[1]].registered = 4
    /\ {FilePath(EntityTypes[1], n, x) : n \in {"a", "b"}, x \in {"x", "y"}}
         \subseteq DOMAIN fileDataMap
    /\ \A u \in DOMAIN fileDataMap :
         /\ ~fileDataMap[u].hasDirtyChanges
         /\ IsFile(objects, Resolve(objects, u))

\* ------------------------------------------------------------ overlapping calls
\* C29, as stated: whatever calls overlap, a path that resolves to an entry
\* resolves to that entry after every step, and a Directory keeps each child
\* it has.
EntriesAreNeverReplaced ==
    [][/\ \A u \in Uris :
            Resolve(objects, u) # NoEntry
            => Resolve(objects', u) = Resolve(objects, u)
       /\ \A id \in DOMAIN objects :
            /\ id \in DOMAIN objects'
            /\ \A n \in DOMAIN objects[id].entries :
                 /\ n \in DOMAIN objects'[id].entries
                 /\ objects'[id].entries[n] = objects[id].entries[n]]_vars

\* C30: two writeFile calls on the same dirty file that overlap take effect
\* in call order, whichever save ends first: a call whose save has ended
\* does not write its content into the File while a call on that File that
\* was made before it, with other content, is still at its save, and so has
\* yet to write its own.
WritesTakeEffectInCallOrder ==
    [][\A p \in Procs, q \in Procs :
          (/\ p # q
           /\ calls[p].pc = "saveData"
           /\ calls'[p].pc = "idle"
           /\ lastCall'.result = "ok"
           /\ calls[q].pc \in {"reAuthenticate", "saveData"}
           /\ calls[q].entry = calls[p].entry
           /\ calls[q].content # calls[p].content)
          => calls[p].issued < calls[q].issued]_vars

\* ------------------------------------------------------------------ loads
\* The call is in _loadFromDataverseToVFS.
Loading(c) == c.pc \in {"authenticate", "fetch"}

\* C31, as stated: at most one remote load is in progress at any time; a read
\* that misses while a load is running begins no second one.
AtMostOneLoad ==
    \A p \in Procs, q \in Procs :
        (Loading(calls[p]) /\ Loading(calls[q])) => p = q

\* C32, as stated: populating the VFS from the remote store never issues a
\* remote save; no PATCH is sent by a writeFile of the fetch provider, which
\* is one that registers the file it writes, whatever the file's FileData
\* says.
LoadNeverSaves ==
    [][\A q \in Procs :
          (/\ calls[q].pc = "reAuthenticate"
           /\ calls'[q].pc = "saveData"
           /\ Len(patches') > Len(patches))
          => calls[q].register = "none"]_vars

\* -------------------------------------------------------- failed writeFile
\* What writeFile throws before it writes: the entry is a Directory, there is
\* no entry and `create` is not set, there is one and `create` is set without
\* `overwrite`, the parent is missing or is no Directory.
WriteFileErrors ==
    {"FileIsADirectory", "FileNotFound", "FileExists", "FileNotADirectory"}

\* C33: a writeFile that fails with one of these errors leaves the tree with
\* the bytes, size and mtime of every entry, the buffered events and the
\* timer as they were before the call, and has not re-authenticated, saved or
\* touched the FileData.
FailedWriteFileChangesNothing ==
    [][(Settles /\ lastCall'.op = "writeFile" /\ lastCall'.result \in WriteFileErrors)
        => /\ objects' = objects
           /\ bufferedEvents' = bufferedEvents
           /\ fireSoonHandle' = fireSoonHandle
           /\ timers' = timers
           /\ now' = now
           /\ fileDataMap' = fileDataMap
           /\ tokensIssued' = tokensIssued
           /\ dataverseAccessToken' = dataverseAccessToken
           /\ patches' = patches
           /\ lastCall'.saves = 0
           /\ Made]_vars

\* C33, witness: a writeFile below a File has failed on a tree whose events
\* are still buffered.
WriteFileFailedOnWrittenTree ==
    /\ lastCall.op = "writeFile"
    /\ lastCall.result = "FileNotADirectory"
    /\ lastCall.saves = 0
    /\ bufferedEvents # <<>>
    /\ \E id \in DOMAIN objects : IsFile(objects, id) /\ objects[id].data # <<>>

\* ------------------------------------------------------- when writeFile saves
\* The entry writeFile finds under the basename in the parent directory;
\* NoEntry when there is none or the parent is not found.
Target(objs, u) ==
    LET look == _lookupParentDirectory(objs, u)
    IN  IF look.err # "none" THEN NoEntry ELSE ChildOf(objs, look.id, basename(u))

\* The call made in this step has begun a save, and waits for it.
BeginsSave == ~Settled' /\ MadeCall.pc = "reAuthenticate"

\* No PATCH is sent for a path that has no FileData.
PatchesHaveFileData ==
    Len(patches') > Len(patches)
    => /\ patches'[Len(patches')].uri \in DOMAIN fileDataMap
       /\ patches'[Len(patches')].entityId = fileDataMap[patches'[Len(patches')].uri].entityId

\* C34, as stated: writeFile saves if and only if the entry it finds is a File
\* and the FileData of the path is marked dirty; a call that does not save
\* has re-authenticated nothing and sent no PATCH.
WriteFileSavesIffDirtyFile ==
    [][/\ MadeOp("writeFile")
          => /\ BeginsSave <=> (/\ IsFile(objects, Target(objects, MadeCall.uri))
                                /\ DirtyIn(fileDataMap, MadeCall.uri))
             /\ tokensIssued' = tokensIssued
             /\ patches' = patches
             /\ (~BeginsSave) => (Settled' /\ lastCall'.saves = 0)
       /\ PatchesHaveFileData]_vars

\* C34, amended: writeFile saves if and only if the entry it finds is a File,
\* the FileData registered under the path as it was given is marked dirty and
\* the options do not make the call fail with FileExists (create without
\* overwrite); every other call is over without a re-authentication and a
\* PATCH, and no PATCH is sent for a path without FileData.
WriteFileSavesIffDirtyFileAccepted ==
    [][/\ MadeOp("writeFile")
          => /\ BeginsSave <=> (/\ IsFile(objects, Target(objects, MadeCall.uri))
                                /\ DirtyIn(fileDataMap, MadeCall.uri)
                                /\ ~(MadeCall.create /\ ~MadeCall.overwrite))
             /\ tokensIssued' = tokensIssued
             /\ patches' = patches
             /\ (~BeginsSave) => (Settled' /\ lastCall'.saves = 0)
       /\ PatchesHaveFileData]_vars

\* C34, witness: after a save of it, a File that is registered and not dirty
\* has been overwritten with no save.
CleanFileWrittenWithoutSave ==
    /\ lastCall.op = "writeFile"
    /\ ~lastCall.create
    /\ lastCall.result = "ok"
    /\ lastCall.saves = 0
    /\ lastCall.uri \in DOMAIN fileDataMap
    /\ ~fileDataMap[lastCall.uri].hasDirtyChanges
    /\ Len(patches) = 1

\* ------------------------------------------------------- the steps of a load
\* The call goes on from the await of the authentication, or from that of
\* the fetch.
AfterAuthentication(p) == calls[p].pc = "authenticate" /\ calls'[p] # calls[p]
AfterFetch(p) == calls[p].pc = "fetch" /\ calls'[p] # calls[p]

\* What the load of the step has read.
LoadOf(p) == IF Settled' THEN lastCall'.load ELSE calls'[p].load

\* The paths of the website's directory and of the entity folder.
WebsiteDirectory(l) == <<l.portalFolderName>>
EntityFolderOf(l) == <<l.portalFolderName, l.subUri>>

\* The export type is one that has a folder.
HasFolder(l) == l.exportType \in {"SubFolders", "SingleFolder"}

\* The objects made in the step.
NewObjects == DOMAIN objects' \ DOMAIN objects

\* The steps of a load but for the entity folder: the authentication is over
\* when anything is made; only directories are made; an empty website name
\* ends the load with nothing made and no fetch; a load that goes on to the
\* fetch has a website name and an entry under it, made before the entity
\* folder when both are new; a load fails for an empty name, an empty folder
\* name or a File in the place of the website's directory, and for nothing
\* else.
LoadStepsBeforeFetch(p) ==
    AfterAuthentication(p) =>
        LET l == LoadOf(p)
            w == Resolve(objects', WebsiteDirectory(l))
            f == Resolve(objects', EntityFolderOf(l))
        IN  /\ tokensIssued' = tokensIssued + 1
            /\ dataverseAccessToken' = tokensIssued'
            /\ \A id \in NewObjects : IsDirectory(objects', id)
            /\ l.portalFolderName = ""
                 <=> (Settled' /\ lastCall'.result = PORTAL_FOLDER_NAME_EMPTY)
            /\ l.portalFolderName = ""
                 => (objects' = objects /\ bufferedEvents' = bufferedEvents)
            /\ Settled'
                 => \/ lastCall'.result = PORTAL_FOLDER_NAME_EMPTY
                    \/ /\ lastCall'.result = SUBURI_EMPTY
                       /\ l.subUri = ""
                       /\ w # NoEntry
                    \/ /\ lastCall'.result = "FileNotADirectory"
                       /\ IsFile(objects, Resolve(objects, WebsiteDirectory(l)))
                       /\ HasFolder(l)
                       /\ objects' = objects
            /\ (~Settled')
                 => /\ calls'[p].pc = "fetch"
                    /\ l.subUri # ""
                    /\ w # NoEntry
                    /\ (w \in NewObjects /\ f \in NewObjects)
                         => /\ objects'[w].ctime < objects'[f].ctime
                            /\ ChildOf(objects', w, l.subUri) = f

\* C35, as stated: within a load the authentication is over, then the
\* directory of the website is there, then the folder of the entity, and only
\* then the fetch runs; with an empty website name the load fails with
\* nothing made and no fetch.
LoadStepsInOrderWithFolder ==
    [][\A p \in Procs :
          /\ LoadStepsBeforeFetch(p)
          /\ (AfterAuthentication(p) /\ ~Settled')
               => Resolve(objects', EntityFolderOf(LoadOf(p))) # NoEntry
          /\ AfterFetch(p)
               => /\ tokensIssued > 0
                  /\ calls[p].load.portalFolderName # ""
                  /\ Resolve(objects, WebsiteDirectory(calls[p].load)) # NoEntry
                  /\ Resolve(objects, EntityFolderOf(calls[p].load)) # NoEntry]_vars

\* C35, amended: the same, the folder of the entity being made, and there
\* when the fetch runs, only when the export type of the entity is
\* SubFolders or SingleFolder; with any other the load makes no folder and
\* goes on to the fetch without one.
LoadStepsInOrder ==
    [][\A p \in Procs :
          /\ LoadStepsBeforeFetch(p)
          /\ (AfterAuthentication(p) /\ ~Settled')
               => LET l == LoadOf(p)
                  IN  IF HasFolder(l)
                      THEN Resolve(objects', EntityFolderOf(l)) # NoEntry
                      ELSE NewObjects \subseteq
                                {Resolve(objects', WebsiteDirectory(l))}
          /\ AfterFetch(p)
               => /\ tokensIssued > 0
                  /\ calls[p].load.portalFolderName # ""
                  /\ Resolve(objects, WebsiteDirectory(calls[p].load)) # NoEntry
                  /\ HasFolder(calls[p].load)
                       => Resolve(objects, EntityFolderOf(calls[p].load)) # NoEntry]_vars

\* C35, witness: a load has made the directory of the website and then the
\* folder of the entity, and a later load, which read an empty website name,
\* has failed.
LoadFailedForEmptyName ==
    /\ lastCall.loads = 1
    /\ lastCall.result = PORTAL_FOLDER_NAME_EMPTY
    /\ LET w == Resolve(objects, <<WebsiteName>>)
           f == Resolve(objects, <<WebsiteName, EntityFolderName>>)
       IN  /\ IsDirectory(objects, w)
           /\ IsDirectory(objects, f)
           /\ objects[w].ctime < objects[f].ctime

\* ------------------------------------------------- readFile after its load
\* C36: a readFile that has begun a load does not come back with no bytes
\* and no error when the load fails or the path is still not a File's.  When
\* the load throws, the call fails with what it threw and looks nothing up
\* again; when the load is over, the call looks the path up once more and
\* fails with FileNotFound when there is no entry, with FileIsADirectory when
\* the entry is a Directory, and returns the bytes only of a File.
ReadFileFailsAfterLoad ==
    [][\A p \in Procs :
          (calls[p].op = "readFile" /\ calls[p].loads = 1 /\ Settles
                /\ calls'[p] # calls[p])
          => LET id == Resolve(objects', lastCall'.uri)
             IN  /\ lastCall'.op = "readFile"
                 /\ IF calls[p].pc = "authenticate"
                    THEN /\ lastCall'.result \in {PORTAL_FOLDER_NAME_EMPTY,
                                                  SUBURI_EMPTY, "FileNotADirectory"}
                         /\ lastCall'.lookups = 1
                    ELSE /\ calls[p].pc = "fetch"
                         /\ lastCall'.lookups = 2
                         /\ lastCall'.result =
                                IF IsFile(objects', id) THEN "ok"
                                ELSE IF id = NoEntry THEN "FileNotFound"
                                ELSE "FileIsADirectory"
                 /\ lastCall'.result = "ok"
                      => (IsFile(objects', id) /\ lastCall'.data = objects'[id].data)
                 /\ lastCall'.result # "ok" => lastCall'.data = <<>>]_vars

\* C36, witness: a readFile of the entity folder's path has loaded, found a
\* Directory where it looked again, and failed.
ReadFileFailedAfterLoad ==
    /\ lastCall.op = "readFile"
    /\ lastCall.loads = 1
    /\ lastCall.lookups = 2
    /\ lastCall.result = "FileIsADirectory"
    /\ IsDirectory(objects, Resolve(objects, lastCall.uri))

\* ------------------------------------------------------------------ the tree
\* The places an entry is held in: the directories and the keys under which
\* their maps have it.
Holders(objs, id) ==
    UNION {{<<d, n>> : n \in {m \in DOMAIN objs[d].entries : objs[d].entries[m] = id}} :
           d \in DOMAIN objs}

\* From the entry the root is reached by going up at most k times, whichever
\* holder is taken.
RECURSIVE ReachesRoot(_, _, _)
ReachesRoot(objs, id, k) ==
    \/ id = RootId
    \/ /\ k > 0
       /\ Holders(objs, id) # {}
       /\ \A h \in Holders(objs, id) : ReachesRoot(objs, h[1], k - 1)

\* Going up from the entry ends, after k times at most, at an entry nothing
\* holds: no entry is above itself.
RECURSIVE Ends(_, _, _)
Ends(objs, id, k) ==
    \/ Holders(objs, id) = {}
    \/ /\ k > 0
       /\ \A h \in Holders(objs, id) : Ends(objs, h[1], k - 1)

\* The entry is in the tree: the root is above it, or it is the root.
InTree(objs, id) == ReachesRoot(objs, id, Cardinality(DOMAIN objs))

\* C37: the tree is acyclic and has the one root, which nothing holds; no
\* entry is held twice, and whatever holds an entry is a Directory that has it
\* under the entry's own name; every entry a Directory of the tree lists is
\* held by that Directory alone and is in the tree.  (An entry that was
\* replaced in its Directory is held by nothing, and is no part of the tree.)
TreeIsWellFormed ==
    /\ IsDirectory(objects, RootId)
    /\ Holders(objects, RootId) = {}
    /\ \A id \in DOMAIN objects :
         /\ Ends(objects, id, Cardinality(DOMAIN objects))
         /\ Cardinality(Holders(objects, id)) <= 1
         /\ \A h \in Holders(objects, id) :
              /\ IsDirectory(objects, h[1])
              /\ h[2] = objects[id].name
         /\ InTree(objects, id)
              => \A n \in DOMAIN objects[id].entries :
                    /\ objects[id].entries[n] \in DOMAIN objects \ {RootId}
                    /\ Holders(objects, objects[id].entries[n]) = {<<id, n>>}
                    /\ InTree(objects, objects[id].entries[n])

\* C37, witness: a Directory of the root holds a File that has been written.
FileInDirectory ==
    \E d \in DOMAIN objects, f \in DOMAIN objects :
        /\ <<RootId, objects[d].name>> \in Holders(objects, d)
        /\ <<d, objects[f].name>> \in Holders(objects, f)
        /\ IsFile(objects, f)
        /\ objects[f].data # <<>>

\* ------------------------------------------------------------------ lookup
\* The paths looked up: what uri.path.split("/") can give, with empty parts
\* at the start, at the end and in between.
LookupPaths == UNION {[1..k -> Segs] : k \in 0..(MaxLen + 1)}

\* The parts of the path that are not empty.
RECURSIVE NonEmpty(_)
NonEmpty(u) ==
    IF u = <<>> THEN <<>>
    ELSE IF Head(u) = "" THEN NonEmpty(Tail(u))
    ELSE <<Head(u)>> \o NonEmpty(Tail(u))

\* The entry reached from `id` by the names, one Directory's map after the
\* other; NoEntry when a name is missing or stands below a File.
RECURSIVE EntryAt(_, _, _)
EntryAt(objs, id, names) ==
    IF names = <<>> \/ id = NoEntry THEN id
    ELSE EntryAt(objs,
                 IF IsDirectory(objs, id) THEN ChildOf(objs, id, Head(names))
                 ELSE NoEntry,
                 Tail(names))

\* C38: _lookup skips empty parts: a path resolves to what its non-empty
\* parts resolve to, so paths that differ in slashes only resolve alike, and
\* one with no part that is not empty resolves to the root; a miss, that of a
\* path through a File too, gives undefined and no error when the lookup is
\* silent and throws FileNotFound when it is not.
LookupSkipsEmptySegments ==
    \A u \in LookupPaths, silent \in BOOLEAN :
        LET r == _lookup(objects, u, silent)
            e == EntryAt(objects, RootId, NonEmpty(u))
        IN  /\ r = _lookup(objects, NonEmpty(u), silent)
            /\ NonEmpty(u) = <<>> => r = [err |-> "none", id |-> RootId]
            /\ r = IF e # NoEntry THEN [err |-> "none", id |-> e]
                   ELSE IF silent THEN [err |-> "none", id |-> NoEntry]
                   ELSE [err |-> "FileNotFound", id |-> NoEntry]

\* C38, witness: "a" is a File; createDirectory of "/a/a" has looked the path
\* up silently, through the File, without an error, and has failed only with
\* the lookup of its parent; "//a/" resolves to the File.
LookedUpThroughFile ==
    /\ lastCall.op = "createDirectory"
    /\ lastCall.uri = <<"a", "a">>
    /\ lastCall.result = "FileNotADirectory"
    /\ IsFile(objects, EntryAt(objects, RootId, <<"a">>))
    /\ _lookup(objects, <<"", "a", "">>, FALSE).id = EntryAt(objects, RootId, <<"a">>)
    /\ _lookup(objects, <<"a", "a">>, TRUE) = [err |-> "none", id |-> NoEntry]
    /\ _lookup(objects, <<"a", "a">>, FALSE).err = "FileNotFound"

====
